---- MODULE Spec2Model ----
(***************************************************************************)
(* Model of the memman reconciliation engine: document parser, managed-    *)
(* section writer, differ, sync engine and correction pipeline.            *)
(*                                                                         *)
(* Text is a sequence of tokens.  A token is an indivisible piece of a     *)
(* string: a word, a punctuation glyph, one blank, one newline "\n", or a  *)
(* whole managed-region marker.  Regular expressions and string functions  *)
(* of the source are translated to the token level.  Texts are built so    *)
(* that two word tokens are always separated by a non-word token.          *)
(***************************************************************************)
EXTENDS Integers, Sequences, FiniteSets, TLC

VARIABLES claudeFile, agentsFile, entries, corrections, syncState, inp, last, prev

vars == <<claudeFile, agentsFile, entries, corrections, syncState, inp, last, prev>>

(***************************************************************************)
(* Bounds                                                                  *)
(***************************************************************************)
MaxWriterLen == 3
MaxParserLines == 4
MaxSource == 2
MaxTarget == 2
MaxEntries == 2

(***************************************************************************)
(* String primitives                                                       *)
(***************************************************************************)
NL == "\n"
SP == " "

\* the value of Op at v, with v evaluated once
With(v, Op(_)) == CHOOSE r \in {Op(x) : x \in {v}} : TRUE

\* JavaScript whitespace (\s), as far as the vocabulary has it
IsSpace(t) == t \in {SP, NL}

\* String.prototype.toLowerCase on one token
Lower(t) ==
  CASE t = "Claude" -> "claude"
    [] t = "Code" -> "code"
    [] t = "The" -> "the"
    [] t = "AI" -> "ai"
    [] t = "Tell" -> "tell"
    [] t = "Instruct" -> "instruct"
    [] t = "Synced" -> "synced"
    [] t = "CLAUDE.md" -> "claude.md"
    [] t = "AGENTS.md" -> "agents.md"
    [] t = "AGENTS.override.md" -> "agents.override.md"
    [] t = "Rules" -> "rules"
    [] t = "Npm" -> "npm"
    [] t = "Testing" -> "testing"
    [] OTHER -> t

toLowerCase(s) == [i \in 1..Len(s) |-> Lower(s[i])]

\* String.prototype.length of one token
TokLen(t) ==
  CASE t \in {SP, NL, "-", "*", "+", "#", "a", "b", "|", ",", ".", "\""} -> 1
    [] t \in {"##", "ok", "AI", "to"} -> 2
    [] t \in {"vue", "---"} -> 3
    [] t = "auth" -> 4
    [] t \in {"commit", "paths:"} -> 6
    [] t \in {"tests/**", "database", "**/*.vue"} -> 8
    [] t = "migration" -> 9
    [] t \in {"**/*.test.*", "**/*.spec.*"} -> 11
    [] t = "database/migrations/**" -> 22
    [] t = "x{194}" -> 194
    [] t = "x{195}" -> 195
    [] t \in {"use", "run", "The", "the", "not", "npm", "Npm", "var"} -> 3
    [] t \in {"mode", "tabs", "rule", "from", "Code", "Tell", "pnpm"} -> 4
    [] t \in {"tests", "Rules", "const", "never"} -> 5
    [] t \in {"always", "strict", "Synced", "Claude", "should", "hooks:"} -> 6
    [] t \in {"Instruct", "renamed"} -> 8
    [] t \in {"assistant", "CLAUDE.md", "AGENTS.md"} -> 9
    [] t = ".claude/rules" -> 13
    [] t = "AGENTS.override.md" -> 18
    [] t = "<!-- memman:end id=other -->" -> 28
    [] t = "<!-- memman:end id=synced -->" -> 29
    [] t = "<!-- memman:start id=other -->" -> 30
    [] t = "<!-- memman:start id=synced -->" -> 31
    [] OTHER -> 7

RECURSIVE StrLen(_)
StrLen(s) == IF s = <<>> THEN 0 ELSE TokLen(Head(s)) + With(Tail(s), LAMBDA t : StrLen(t))

RECURSIVE trimEnd(_)
trimEnd(s) ==
  IF s = <<>> THEN <<>>
  ELSE IF IsSpace(s[Len(s)]) THEN With(SubSeq(s, 1, Len(s) - 1), LAMBDA t : trimEnd(t)) ELSE s

RECURSIVE trimStart(_)
trimStart(s) ==
  IF s = <<>> THEN <<>>
  ELSE IF IsSpace(Head(s)) THEN With(Tail(s), LAMBDA t : trimStart(t)) ELSE s

trim(s) == With(trimEnd(s), LAMBDA t : trimStart(t))

\* String.prototype.split('\n'): always at least one line
split(s) ==
  With({i \in 1..Len(s) : s[i] = NL}, LAMBDA breaks :
    LET n == Cardinality(breaks)
        \* the k-th line break; 0 and Len(s) + 1 stand for the two ends
        at(k) == IF k = 0 THEN 0
                 ELSE IF k > n THEN Len(s) + 1
                 ELSE CHOOSE i \in breaks : Cardinality({j \in breaks : j < i}) = k - 1
    IN [k \in 1..(n + 1) |-> SubSeq(s, at(k - 1) + 1, at(k) - 1)])

\* Array.prototype.join(sep) on an array of strings
RECURSIVE join(_, _)
join(parts, sep) ==
  IF parts = <<>> THEN <<>>
  ELSE IF Len(parts) = 1 THEN parts[1]
  ELSE parts[1] \o sep \o With(Tail(parts), LAMBDA rest : join(rest, sep))

\* String.prototype.indexOf for a one-token needle; 0 stands for -1
indexOf(s, tok) ==
  IF \E i \in 1..Len(s) : s[i] = tok
  THEN CHOOSE i \in 1..Len(s) : s[i] = tok /\ \A j \in 1..(i - 1) : s[j] # tok
  ELSE 0

\* String.prototype.includes for a needle of several tokens
includes(s, needle) ==
  \E i \in 1..(Len(s) - Len(needle) + 1) : SubSeq(s, i, i + Len(needle) - 1) = needle

\* includes for a needle that lies inside one token (case already lowered)
TokHas(t, needle) ==
  CASE needle = "claude" ->
         t \in {"claude", "claude.md", ".claude/rules", ".claude/settings", "claude_desktop_config"}
    [] needle = ".claude/rules" -> t = ".claude/rules"
    [] needle = ".claude/settings" -> t = ".claude/settings"
    [] needle = "hooks:" -> t = "hooks:"
    [] needle = "agents.override" -> t = "agents.override.md"
    [] needle = "memory.md" -> t = "memory.md"
    [] needle = "test" -> t \in {"test", "tests", "testing", "tests/**"}
    [] needle = "migration" -> t \in {"migration", "database/migrations/**"}
    [] needle = ".vue" -> t = "**/*.vue"
    [] OTHER -> t = needle

includesTok(s, needle) == \E i \in 1..Len(s) : TokHas(s[i], needle)

(***************************************************************************)
(* Content hasher                                                          *)
(***************************************************************************)
\* The digests are collision free on the texts of the model: a digest is
\* represented by the text it was computed from.
contentHash(content) == <<"sha256/16">> \o trim(content)

fileHash(content) == <<"sha256">> \o content

(***************************************************************************)
(* Document parser (claude-md.ts and agents-md.ts are the same automaton)  *)
(***************************************************************************)
MarkerIds == {"synced", "other"}

\* `<!-- memman:start id=${managedId} -->`
StartMarker(id) ==
  IF id = "synced" THEN "<!-- memman:start id=synced -->" ELSE "<!-- memman:start id=other -->"

\* `<!-- memman:end id=${managedId} -->`
EndMarker(id) ==
  IF id = "synced" THEN "<!-- memman:end id=synced -->" ELSE "<!-- memman:end id=other -->"

\* line.match(MANAGED_START_RE): the regex is not anchored
MANAGED_START_RE(line) == \E i \in 1..Len(line) : \E id \in MarkerIds : line[i] = StartMarker(id)

\* capture group 1 of the leftmost match
StartMatchId(line) ==
  LET i == CHOOSE k \in 1..Len(line) :
             /\ \E id \in MarkerIds : line[k] = StartMarker(id)
             /\ \A j \in 1..(k - 1) : \A id \in MarkerIds : line[j] # StartMarker(id)
  IN CHOOSE id \in MarkerIds : line[i] = StartMarker(id)

MANAGED_END_RE(line) == \E i \in 1..Len(line) : \E id \in MarkerIds : line[i] = EndMarker(id)

HashRuns == {"#", "##"}

\* /^(#{1,6})\s+(.+)$/
HEADING_RE(line) == Len(line) >= 3 /\ line[1] \in HashRuns /\ line[2] = SP

\* capture group 1 length
HeadingLevel(line) == TokLen(line[1])

\* number of whitespace tokens of s from position i on
RECURSIVE SpaceRun(_, _)
SpaceRun(s, i) == IF i <= Len(s) /\ s[i] = SP THEN 1 + SpaceRun(s, i + 1) ELSE 0

\* capture group 2: \s+ is greedy but leaves at least one character to (.+)
HeadingText(line) ==
  LET k == SpaceRun(line, 2) IN
  IF 1 + k < Len(line) THEN SubSeq(line, 2 + k, Len(line)) ELSE <<line[Len(line)]>>

BulletGlyphs == {"-", "*", "+"}

\* /^(\s*)[-*+]\s+(.+)$/
BULLET_RE(line) ==
  LET k == SpaceRun(line, 1) IN
  /\ Len(line) >= k + 3
  /\ line[k + 1] \in BulletGlyphs
  /\ line[k + 2] = SP

\* bulletMatch[1].length
BulletIndent(line) == SpaceRun(line, 1)

\* heading of an entry or section that has none (undefined); a real heading
\* is never empty
NoHeading == <<>>

\* the tags in the order the code pushes them
extractTags(content) ==
  With(toLowerCase(content), LAMBDA lower :
  LET has(needle) == includesTok(lower, needle)
      tag(cond, name) == IF cond THEN <<name>> ELSE <<>>
  IN tag(has("test"), "testing")
     \o tag(has("security") \/ has("auth"), "security")
     \o tag(has("database") \/ has("sql") \/ has("migration"), "database")
     \o tag(has("api") \/ has("endpoint") \/ has("route"), "api")
     \o tag(has("style") \/ has("css") \/ has("tailwind"), "frontend")
     \o tag(has("deploy") \/ has("ci") \/ has("docker"), "devops")
     \o tag(has("never") \/ has("always") \/ has("must"), "rule"))

buildEntry(content, heading, level) ==
  [content |-> trim(content), heading |-> heading, level |-> level,
   tags |-> extractTags(content)]

extractEntries(content, sectionLevel) ==
  With(split(content), LAMBDA lines :
  LET \* loop state after the first i lines
      F[i \in 0..Len(lines)] ==
        IF i = 0 THEN [entries |-> <<>>, currentEntry |-> <<>>, currentHeading |-> NoHeading]
        ELSE With(F[i - 1], LAMBDA st :
             LET line == lines[i]
                 flushed == Append(st.entries,
                              buildEntry(join(st.currentEntry, <<NL>>), st.currentHeading, sectionLevel))
             IN
             IF HEADING_RE(line) THEN [st EXCEPT !.currentHeading = HeadingText(line)]
             ELSE IF BULLET_RE(line) THEN
               IF BulletIndent(line) = 0 /\ st.currentEntry # <<>>
               THEN [st EXCEPT !.entries = flushed, !.currentEntry = <<line>>]
               ELSE [st EXCEPT !.currentEntry = Append(@, line)]
             ELSE IF st.currentEntry # <<>> /\ trim(line) # <<>>
               THEN [st EXCEPT !.currentEntry = Append(@, line)]
             ELSE IF st.currentEntry # <<>> /\ trim(line) = <<>>
               THEN [st EXCEPT !.entries = flushed, !.currentEntry = <<>>]
             ELSE st)
  IN With(F[Len(lines)], LAMBDA fin :
       With(IF fin.currentEntry # <<>>
            THEN Append(fin.entries,
                        buildEntry(join(fin.currentEntry, <<NL>>), fin.currentHeading, sectionLevel))
            ELSE fin.entries,
            LAMBDA bulleted :
              IF bulleted = <<>> /\ trim(content) # <<>>
              THEN <<buildEntry(trim(content), fin.currentHeading, sectionLevel)>>
              ELSE bulleted)))

\* index of the first heading line of a list of lines, 0 if none
FirstHeading(lines) ==
  IF \E i \in 1..Len(lines) : HEADING_RE(lines[i])
  THEN CHOOSE i \in 1..Len(lines) :
         HEADING_RE(lines[i]) /\ \A j \in 1..(i - 1) : ~HEADING_RE(lines[j])
  ELSE 0

\* a managed section whose content is trimmed
ManagedSection_Trimmed(managedLines, managedId) ==
  With(trim(join(managedLines, <<NL>>)), LAMBDA managedContent :
  With(FirstHeading(managedLines), LAMBDA h :
  LET level == IF h # 0 THEN HeadingLevel(managedLines[h]) ELSE 0
  IN [heading |-> IF h # 0 THEN HeadingText(managedLines[h]) ELSE NoHeading,
      level |-> level,
      content |-> managedContent,
      entries |-> extractEntries(managedContent, level),
      managed |-> TRUE,
      managedId |-> managedId]))

\* the section pushed when a managed block closes
ManagedSection(managedLines, managedId) ==
  With(join(managedLines, <<NL>>), LAMBDA managedContent :
  With(FirstHeading(managedLines), LAMBDA h :
  LET level == IF h # 0 THEN HeadingLevel(managedLines[h]) ELSE 0
  IN [heading |-> IF h # 0 THEN HeadingText(managedLines[h]) ELSE NoHeading,
      level |-> level,
      content |-> managedContent,
      entries |-> extractEntries(managedContent, level),
      managed |-> TRUE,
      managedId |-> managedId]))

\* currentSection with its entries extracted, as pushed to sections
Flush(sections, cur) ==
  IF cur.open
  THEN Append(sections, [heading |-> cur.heading, level |-> cur.level, content |-> cur.content,
                         entries |-> extractEntries(cur.content, cur.level),
                         managed |-> FALSE, managedId |-> ""])
  ELSE sections

NoSection == [open |-> FALSE, heading |-> NoHeading, level |-> 0, content |-> <<>>]

\* the line loop and the final flush; returns the sections of the document
parseLines(raw) ==
  With(split(raw), LAMBDA lines :
  LET F[i \in 0..Len(lines)] ==
        IF i = 0
        THEN [sections |-> <<>>, currentSection |-> NoSection, inManagedBlock |-> FALSE,
              managedId |-> "", managedLines |-> <<>>]
        ELSE With(F[i - 1], LAMBDA st :
             LET line == lines[i] IN
             IF MANAGED_START_RE(line) THEN
               [sections |-> Flush(st.sections, st.currentSection),
                currentSection |-> NoSection, inManagedBlock |-> TRUE,
                managedId |-> StartMatchId(line), managedLines |-> <<>>]
             ELSE IF MANAGED_END_RE(line) /\ st.inManagedBlock THEN
               [st EXCEPT !.sections = Append(@, ManagedSection(st.managedLines, st.managedId)),
                          !.inManagedBlock = FALSE, !.managedId = "", !.managedLines = <<>>]
             ELSE IF st.inManagedBlock THEN
               [st EXCEPT !.managedLines = Append(@, line)]
             ELSE IF HEADING_RE(line) THEN
               [st EXCEPT !.sections = Flush(st.sections, st.currentSection),
                          !.currentSection = [open |-> TRUE, heading |-> HeadingText(line),
                                              level |-> HeadingLevel(line), content |-> line]]
             ELSE IF st.currentSection.open THEN
               [st EXCEPT !.currentSection.content = @ \o <<NL>> \o line]
             ELSE IF trim(line) # <<>> THEN
               [st EXCEPT !.currentSection = [open |-> TRUE, heading |-> NoHeading,
                                              level |-> 0, content |-> line]]
             ELSE st)
  IN With(F[Len(lines)], LAMBDA fin : Flush(fin.sections, fin.currentSection)))

\* a file on disk: absent, or present with its raw content
NoFile == [exists |-> FALSE, content |-> <<>>]
File(raw) == [exists |-> TRUE, content |-> raw]

parseClaudeMd(file) == IF ~file.exists THEN <<>> ELSE parseLines(file.content)

parseAgentsMd(file) == IF ~file.exists THEN <<>> ELSE parseLines(file.content)

\* parts of one section in the serialization
SectionParts(section) ==
  IF section.managed /\ section.managedId # ""
  THEN <<<<StartMarker(section.managedId)>>, section.content, <<EndMarker(section.managedId)>>>>
  ELSE <<section.content>>

RECURSIVE AllParts(_)
AllParts(sections) ==
  IF sections = <<>> THEN <<>>
  ELSE SectionParts(Head(sections)) \o With(Tail(sections), LAMBDA rest : AllParts(rest))

\* a serializer that glues the parts together without the separator
serializeClaudeMd_NoSeparator(sections) == join(AllParts(sections), <<>>)

serializeClaudeMd(sections) == join(AllParts(sections), <<NL, NL>>)

serializeAgentsMd(sections) == join(AllParts(sections), <<NL, NL>>)

(***************************************************************************)
(* Managed-section writer                                                  *)
(***************************************************************************)
\* /^[-*+]\s/.test(entry.content)
StartsWithBullet(content) ==
  Len(content) >= 2 /\ content[1] \in BulletGlyphs /\ IsSpace(content[2])

RECURSIVE EntryLines(_)
EntryLines(es) ==
  IF es = <<>> THEN <<>>
  ELSE <<IF StartsWithBullet(Head(es).content) THEN Head(es).content
         ELSE <<"-", SP>> \o Head(es).content>> \o With(Tail(es), LAMBDA rest : EntryLines(rest))

formatEntries(heading, es) ==
  join((IF heading # <<>> THEN <<<<"##", SP>> \o heading, <<>>>> ELSE <<>>) \o EntryLines(es),
       <<NL>>)

\* injectManagedSection of the parser modules: the same text surgery
injectManagedSection(existingContent, managedId, newContent) ==
  LET startIdx == indexOf(existingContent, StartMarker(managedId))
      endIdx == indexOf(existingContent, EndMarker(managedId))
  IN IF startIdx # 0 /\ endIdx # 0
     THEN SubSeq(existingContent, 1, startIdx - 1)
            \o <<StartMarker(managedId), NL>> \o newContent \o <<NL, EndMarker(managedId)>>
            \o SubSeq(existingContent, endIdx + 1, Len(existingContent))
     ELSE trimEnd(existingContent) \o <<NL, NL>>
            \o <<StartMarker(managedId), NL>> \o newContent \o <<NL, EndMarker(managedId), NL>>

\* the file after writeManagedSection(filePath, managedId, heading, entries)
writeManagedSection(file, managedId, heading, es) ==
  With(formatEntries(heading, es), LAMBDA sectionContent :
  LET existing == IF file.exists THEN file.content ELSE <<>>
      startIdx == indexOf(existing, StartMarker(managedId))
      endIdx == indexOf(existing, EndMarker(managedId))
      output ==
        IF startIdx # 0 /\ endIdx # 0
        THEN SubSeq(existing, 1, startIdx - 1)
               \o <<StartMarker(managedId), NL>> \o sectionContent \o <<NL, EndMarker(managedId)>>
               \o SubSeq(existing, endIdx + 1, Len(existing))
        ELSE trimEnd(existing) \o <<NL, NL>>
               \o <<StartMarker(managedId), NL>> \o sectionContent \o <<NL, EndMarker(managedId), NL>>
  IN File(output))

(***************************************************************************)
(* Differ                                                                  *)
(***************************************************************************)
\* the maximal runs of word characters (\w) of one lowered token
Words(t) ==
  CASE t \in {SP, NL, "-", "*", "+", "#", "##", "|", ",", ".", "\""} -> <<>>
    [] t = "claude.md" -> <<"claude", "md">>
    [] t = "agents.md" -> <<"agents", "md">>
    [] t = "agents.override.md" -> <<"agents", "override", "md">>
    [] t = ".claude/rules" -> <<"claude", "rules">>
    [] t = "hooks:" -> <<"hooks">>
    [] t = "<!-- memman:start id=synced -->" -> <<"memman", "start", "id", "synced">>
    [] t = "<!-- memman:end id=synced -->" -> <<"memman", "end", "id", "synced">>
    [] t = "<!-- memman:start id=other -->" -> <<"memman", "start", "id", "other">>
    [] t = "<!-- memman:end id=other -->" -> <<"memman", "end", "id", "other">>
    [] OTHER -> <<t>>

\* length of a word that is not itself a token of the vocabulary
WordLen(w) ==
  CASE w \in {"md", "id"} -> 2
    [] w = "end" -> 3
    [] w \in {"start", "other", "hooks", "rules"} -> 5
    [] w \in {"memman", "agents", "claude", "synced"} -> 6
    [] w = "override" -> 8
    [] OTHER -> TokLen(w)

\* new Set(text.toLowerCase().split(/\W+/).filter(w => w.length > 2))
tokenize(text) ==
  {w \in UNION {{Words(Lower(text[i]))[k] : k \in 1..Len(Words(Lower(text[i])))} : i \in 1..Len(text)} :
     WordLen(w) > 2}

\* Jaccard similarity as the fraction <<numerator, denominator>>
similarity(a, b) ==
  LET wordsA == tokenize(a)
      wordsB == tokenize(b)
      intersection == Cardinality(wordsA \cap wordsB)
  IN IF wordsA = {} /\ wordsB = {} THEN <<1, 1>>
     ELSE IF wordsA = {} \/ wordsB = {} THEN <<0, 1>>
     ELSE <<intersection, Cardinality(wordsA) + Cardinality(wordsB) - intersection>>

\* comparison of two fractions with positive denominators
FracGt(x, y) == x[1] * y[2] > y[1] * x[2]

\* x > 0.5
AboveHalf(x) == 2 * x[1] > x[2]

NoMatch == [found |-> FALSE]

\* a candidate replaces the best one on equal similarity too
findMostSimilar_LastWins(entry, candidates) ==
  LET F[i \in 0..Len(candidates)] ==
        IF i = 0 THEN NoMatch
        ELSE With(F[i - 1], LAMBDA best :
               With(similarity(entry.content, candidates[i].content), LAMBDA sim :
                 IF ~best.found \/ ~FracGt(best.similarity, sim)
                 THEN [found |-> TRUE, entry |-> candidates[i], similarity |-> sim]
                 ELSE best))
  IN F[Len(candidates)]

findMostSimilar(entry, candidates) ==
  LET F[i \in 0..Len(candidates)] ==
        IF i = 0 THEN NoMatch
        ELSE With(F[i - 1], LAMBDA best :
               With(similarity(entry.content, candidates[i].content), LAMBDA sim :
                 IF ~best.found \/ FracGt(sim, best.similarity)
                 THEN [found |-> TRUE, entry |-> candidates[i], similarity |-> sim]
                 ELSE best))
  IN F[Len(candidates)]

\* a Map is the sequence of its <<key, value>> pairs in insertion order
MapHas(m, k) == \E i \in 1..Len(m) : m[i][1] = k

MapSet(m, k, v) ==
  IF MapHas(m, k) THEN [i \in 1..Len(m) |-> IF m[i][1] = k THEN <<k, v>> ELSE m[i]]
  ELSE Append(m, <<k, v>>)

RECURSIVE MapDelete(_, _)
MapDelete(m, k) ==
  IF m = <<>> THEN <<>>
  ELSE IF Head(m)[1] = k THEN With(Tail(m), LAMBDA rest : MapDelete(rest, k))
  ELSE <<Head(m)>> \o With(Tail(m), LAMBDA rest : MapDelete(rest, k))

MapValues(m) == [i \in 1..Len(m) |-> m[i][2]]

\* new Map(entries.map(e => [contentHash(e.content), e]))
HashMap(es) ==
  LET F[i \in 0..Len(es)] ==
        IF i = 0 THEN <<>> ELSE MapSet(F[i - 1], contentHash(es[i].content), es[i])
  IN F[Len(es)]

\* the first loop of diffEntries: exact matches, fuzzy matches, additions
MatchLoop(sourceHashes, targetHashes0) ==
  LET F[i \in 0..Len(sourceHashes)] ==
        IF i = 0
        THEN [targetHashes |-> targetHashes0, added |-> <<>>, modified |-> <<>>, unchanged |-> <<>>]
        ELSE With(F[i - 1], LAMBDA st :
             LET hash == sourceHashes[i][1]
                 entry == sourceHashes[i][2]
             IN IF MapHas(st.targetHashes, hash)
                THEN [st EXCEPT !.unchanged = Append(@, entry)]
                ELSE With(findMostSimilar(entry, MapValues(st.targetHashes)), LAMBDA similar :
                  IF similar.found /\ AboveHalf(similar.similarity)
                  THEN [st EXCEPT
                          !.modified = Append(@, [source |-> entry, target |-> similar.entry,
                                                  similarity |-> similar.similarity]),
                          !.targetHashes = MapDelete(@, contentHash(similar.entry.content))]
                  ELSE [st EXCEPT !.added = Append(@, entry)]))
  IN F[Len(sourceHashes)]

\* a second loop that forgets to test the source map
RemovedLoop_NoSourceTest(sourceHashes, targetHashes, modified) ==
  LET F[i \in 0..Len(targetHashes)] ==
        IF i = 0 THEN <<>>
        ELSE LET hash == targetHashes[i][1]
                 alreadyModified ==
                   \E k \in 1..Len(modified) : contentHash(modified[k].target.content) = hash
             IN IF ~alreadyModified THEN Append(F[i - 1], targetHashes[i][2]) ELSE F[i - 1]
  IN F[Len(targetHashes)]

\* the second loop of diffEntries: remaining target entries
RemovedLoop(sourceHashes, targetHashes, modified) ==
  LET F[i \in 0..Len(targetHashes)] ==
        IF i = 0 THEN <<>>
        ELSE LET hash == targetHashes[i][1]
                 alreadyModified ==
                   \E k \in 1..Len(modified) : contentHash(modified[k].target.content) = hash
             IN IF ~MapHas(sourceHashes, hash) /\ ~alreadyModified
                THEN Append(F[i - 1], targetHashes[i][2])
                ELSE F[i - 1]
  IN F[Len(targetHashes)]

diffEntries(sourceEntries, targetEntries) ==
  With(HashMap(sourceEntries), LAMBDA sourceHashes :
  With(HashMap(targetEntries), LAMBDA targetHashes :
  With(MatchLoop(sourceHashes, targetHashes), LAMBDA m :
    [added |-> m.added,
     removed |-> RemovedLoop(sourceHashes, m.targetHashes, m.modified),
     modified |-> m.modified,
     unchanged |-> m.unchanged])))

RECURSIVE flattenEntries(_)
flattenEntries(sections) ==
  IF sections = <<>> THEN <<>>
  ELSE (IF ~Head(sections).managed THEN Head(sections).entries ELSE <<>>)
         \o With(Tail(sections), LAMBDA rest : flattenEntries(rest))

diffSections(sourceSections, targetSections) ==
  diffEntries(flattenEntries(sourceSections), flattenEntries(targetSections))

(***************************************************************************)
(* Translator                                                              *)
(***************************************************************************)
\* tokens whose first / last character is not a word character (\W)
NonWordStart(t) ==
  t \in {SP, NL, "-", "*", "+", "#", "##", "|", ".claude/rules", ".claude/settings"}
    \cup {StartMarker(id) : id \in MarkerIds} \cup {EndMarker(id) : id \in MarkerIds}

NonWordEnd(t) ==
  t \in {SP, NL, "-", "*", "+", "#", "##", "|", "hooks:"}
    \cup {StartMarker(id) : id \in MarkerIds} \cup {EndMarker(id) : id \in MarkerIds}

\* content.replace(/\b<pattern>\b/gi, replacement): pattern is given lowered,
\* as whole tokens that begin and end with a word character
replaceAll(s, pattern, replacement) ==
  LET n == Len(pattern)
      Match(i) ==
        /\ i + n - 1 <= Len(s)
        /\ toLowerCase(SubSeq(s, i, i + n - 1)) = pattern
        /\ (i = 1 \/ NonWordEnd(s[i - 1]))
        /\ (i + n > Len(s) \/ NonWordStart(s[i + n]))
      \* the result for the text from position i on
      F[i \in 1..(Len(s) + 1)] ==
        IF i > Len(s) THEN <<>>
        ELSE IF Match(i) THEN replacement \o F[i + n]
        ELSE <<s[i]>> \o F[i + 1]
  IN F[1]

translateEntryToAgents(entry) ==
  [entry EXCEPT !.content =
     replaceAll(replaceAll(@, <<"claude", SP, "code", SP, "should">>,
                           <<"The", SP, "AI", SP, "assistant", SP, "should">>),
                <<"tell", SP, "claude">>, <<"Instruct", SP, "the", SP, "AI">>)]

translateEntryToClaude(entry) ==
  [entry EXCEPT !.content =
     replaceAll(replaceAll(@, <<"the", SP, "ai", SP, "assistant", SP, "should">>,
                           <<"Claude", SP, "Code", SP, "should">>),
                <<"instruct", SP, "the", SP, "ai">>, <<"Tell", SP, "Claude">>)]

\* entries shorter than this are taken for formatting artifacts
MinSyncLength == 10

shouldSync(entry) ==
  With(toLowerCase(entry.content), LAMBDA lower :
    /\ ~(includes(lower, <<"mcp", SP, "server">>) /\ includesTok(lower, "claude"))
    /\ ~includesTok(lower, ".claude/settings")
    /\ ~includesTok(lower, "hooks:")
    /\ ~includesTok(lower, "claude_desktop_config")
    /\ ~(StrLen(trim(entry.content)) < MinSyncLength))

categorizeForSync(entry) ==
  With(toLowerCase(entry.content), LAMBDA lower :
    IF includesTok(lower, ".claude/rules") THEN "claude_only"
    ELSE IF includes(lower, <<"auto", SP, "memory">>) THEN "claude_only"
    ELSE IF includesTok(lower, "memory.md") THEN "claude_only"
    ELSE IF \E t \in {"hooks", "hooks:"} : includes(lower, <<"claude", SP, "code", SP, t>>)
         THEN "claude_only"
    ELSE IF includesTok(lower, "agents.override") THEN "agents_only"
    ELSE "universal")

\* Array.prototype.map
Map(es, f(_)) == [i \in 1..Len(es) |-> f(es[i])]

(***************************************************************************)
(* Repository: the tables memory_entries and sync_state as sequences of    *)
(* rows in insertion order; randomUUID() is the next unused number         *)
(***************************************************************************)
NoRow == [found |-> FALSE]

CLAUDE_MD_PATH == "CLAUDE.md"
AGENTS_MD_PATH == "AGENTS.md"

createEntry(table, entry) ==
  Append(table, [id |-> Len(table) + 1,
                 content |-> entry.content,
                 category |-> entry.category,
                 source |-> entry.source,
                 targets |-> entry.targets,
                 tags |-> entry.tags,
                 content_hash |-> entry.content_hash])

getEntryByHash(table, hash) ==
  IF \E i \in 1..Len(table) : table[i].content_hash = hash
  THEN [found |-> TRUE,
        row |-> table[CHOOSE i \in 1..Len(table) :
                        /\ table[i].content_hash = hash
                        /\ \A j \in 1..(i - 1) : table[j].content_hash # hash]]
  ELSE NoRow

getSyncState(table, sourceFile, targetFile) ==
  LET Hit(i) == table[i].source_file = sourceFile /\ table[i].target_file = targetFile
  IN IF \E i \in 1..Len(table) : Hit(i)
     THEN [found |-> TRUE,
           row |-> table[CHOOSE i \in 1..Len(table) : Hit(i) /\ \A j \in 1..(i - 1) : ~Hit(j)]]
     ELSE NoRow

\* the fresh id never conflicts, so the statement always inserts
upsertSyncState(table, state) ==
  Append(table, [id |-> Len(table) + 1,
                 source_file |-> state.source_file,
                 target_file |-> state.target_file,
                 source_hash |-> state.source_hash,
                 target_hash |-> state.target_hash,
                 direction |-> state.direction])

updateSyncStateHashes(table, sourceFile, targetFile, sourceHash, targetHash) ==
  [i \in 1..Len(table) |->
     IF table[i].source_file = sourceFile /\ table[i].target_file = targetFile
     THEN [table[i] EXCEPT !.source_hash = sourceHash, !.target_hash = targetHash]
     ELSE table[i]]

(***************************************************************************)
(* Sync engine                                                             *)
(***************************************************************************)
MANAGED_ID == "synced"

Directions == {"claude-to-agents", "agents-to-claude", "bidirectional"}

\* existsSync(path) ? fileHash(readFileSync(path)) : ''
CurrentHash(file) == IF file.exists THEN fileHash(file.content) ELSE <<>>

inferCategory(entry) ==
  With(toLowerCase(entry.content), LAMBDA lower :
  LET hasTag(t) == \E i \in 1..Len(entry.tags) : entry.tags[i] = t
      has(needle) == includesTok(lower, needle)
      hasBefore(w) == includes(lower, <<w, SP>>)
  IN IF hasTag("testing") THEN "testing"
     ELSE IF hasTag("security") THEN "security"
     ELSE IF hasTag("database") THEN "architecture"
     ELSE IF hasTag("api") THEN "architecture"
     ELSE IF hasTag("devops") THEN "workflow"
     ELSE IF has("never") \/ has("always") \/ has("must") THEN "coding_standard"
     ELSE IF has("prefer") \/ hasBefore("use") THEN "convention"
     ELSE IF hasBefore("run") \/ has("command") THEN "command"
     ELSE IF has("install") \/ has("package") THEN "dependency"
     ELSE "convention")

\* a conflict detection that does not look at the direction
DetectConflicts_AnyDirection(cFile, aFile, syncRow, direction, diff) ==
  IF /\ syncRow.found
     /\ CurrentHash(cFile) # syncRow.row.source_hash
     /\ CurrentHash(aFile) # syncRow.row.target_hash
  THEN [i \in 1..Len(diff.modified) |->
          [entryId |-> contentHash(diff.modified[i].source.content),
           sourceContent |-> diff.modified[i].source.content,
           targetContent |-> diff.modified[i].target.content]]
  ELSE <<>>

\* lines 68-87: both files changed since the recorded sync state
DetectConflicts(cFile, aFile, syncRow, direction, diff) ==
  IF /\ syncRow.found
     /\ direction = "bidirectional"
     /\ CurrentHash(cFile) # syncRow.row.source_hash
     /\ CurrentHash(aFile) # syncRow.row.target_hash
  THEN [i \in 1..Len(diff.modified) |->
          [entryId |-> contentHash(diff.modified[i].source.content),
           sourceContent |-> diff.modified[i].source.content,
           targetContent |-> diff.modified[i].target.content]]
  ELSE <<>>

EntriesToAgents(diff) ==
  Map(SelectSeq(diff.added, LAMBDA e : shouldSync(e) /\ categorizeForSync(e) # "agents_only"),
      translateEntryToAgents)

EntriesToClaude(diff) ==
  Map(SelectSeq(diff.removed, LAMBDA e : shouldSync(e) /\ categorizeForSync(e) # "claude_only"),
      translateEntryToClaude)

\* the loop that persists the synced entries that are not yet in the table
PersistEntries(table, es, sourceType, sourcePath, targetType, targetPath) ==
  LET F[i \in 0..Len(es)] ==
        IF i = 0 THEN table
        ELSE With(F[i - 1], LAMBDA t :
             With(contentHash(es[i].content), LAMBDA hash :
               IF getEntryByHash(t, hash).found THEN t
               ELSE createEntry(t, [content |-> es[i].content,
                                    category |-> inferCategory(es[i]),
                                    source |-> [type |-> sourceType, file_path |-> sourcePath],
                                    targets |-> <<[type |-> targetType, file_path |-> targetPath,
                                                   hash_at_sync |-> hash]>>,
                                    tags |-> es[i].tags,
                                    content_hash |-> hash])))
  IN F[Len(es)]

\* lines 158-164: the modified entries that are not in conflict
CountUpdated(diff, conflicts) ==
  Cardinality({i \in 1..Len(diff.modified) :
                 ~\E c \in 1..Len(conflicts) :
                    conflicts[c].entryId = contentHash(diff.modified[i].source.content)})

\* lines 166-181
UpdateSyncState(table, syncRow, newClaudeHash, newAgentsHash, direction) ==
  IF syncRow.found
  THEN updateSyncStateHashes(table, CLAUDE_MD_PATH, AGENTS_MD_PATH, newClaudeHash, newAgentsHash)
  ELSE upsertSyncState(table, [source_file |-> CLAUDE_MD_PATH, target_file |-> AGENTS_MD_PATH,
                               source_hash |-> newClaudeHash, target_hash |-> newAgentsHash,
                               direction |-> direction])

\* lines 89-94: the return of a dry run
DryRunReturn(cFile, aFile, entryTable, stateTable, direction, dryRun, diff, syncRow, conflicts) ==
  [claudeFile |-> cFile, agentsFile |-> aFile, entries |-> entryTable,
        syncState |-> stateTable, writes |-> <<>>,
        result |-> [entriesAdded |-> Len(diff.added),
                    entriesUpdated |-> Len(diff.modified),
                    entriesRemoved |-> Len(diff.removed),
                    conflicts |-> conflicts, dryRun |-> dryRun]]

\* lines 96-183: the writes, the persisted entries and the sync state of a real run
RealRun(cFile, aFile, entryTable, stateTable, direction, dryRun, diff, syncRow, conflicts) ==
    With(IF direction \in {"claude-to-agents", "bidirectional"} THEN EntriesToAgents(diff) ELSE <<>>,
         LAMBDA toAgents :
    With(IF direction \in {"agents-to-claude", "bidirectional"} THEN EntriesToClaude(diff) ELSE <<>>,
         LAMBDA toClaude :
    With(IF Len(toAgents) > 0
         THEN writeManagedSection(aFile, MANAGED_ID, <<"Synced", SP, "from", SP, "CLAUDE.md">>, toAgents)
         ELSE aFile,
         LAMBDA newAgents :
    With(IF Len(toClaude) > 0
         THEN writeManagedSection(cFile, MANAGED_ID, <<"Synced", SP, "from", SP, "AGENTS.md">>, toClaude)
         ELSE cFile,
         LAMBDA newClaude :
      [claudeFile |-> newClaude,
       agentsFile |-> newAgents,
       entries |->
         PersistEntries(
           PersistEntries(entryTable, toAgents, "claude_md", CLAUDE_MD_PATH, "agents_md", AGENTS_MD_PATH),
           toClaude, "agents_md", AGENTS_MD_PATH, "claude_md", CLAUDE_MD_PATH),
       syncState |->
         UpdateSyncState(stateTable, syncRow, CurrentHash(newClaude), CurrentHash(newAgents), direction),
       writes |-> (IF Len(toAgents) > 0 THEN <<AGENTS_MD_PATH>> ELSE <<>>)
                    \o (IF Len(toClaude) > 0 THEN <<CLAUDE_MD_PATH>> ELSE <<>>),
       result |-> [entriesAdded |-> Len(toAgents) + Len(toClaude),
                   entriesUpdated |-> CountUpdated(diff, conflicts),
                   entriesRemoved |-> 0,
                   conflicts |-> conflicts, dryRun |-> dryRun]]))))

\* a sync that records the sync state before its dry-run return
SyncFrom_DryRunRecordsState(cFile, aFile, entryTable, stateTable, direction, dryRun, diff, syncRow, conflicts) ==
  IF dryRun
  THEN [DryRunReturn(cFile, aFile, entryTable, stateTable, direction, dryRun, diff, syncRow, conflicts) EXCEPT !.syncState =
          UpdateSyncState(stateTable, syncRow, CurrentHash(cFile), CurrentHash(aFile), direction)]
  ELSE RealRun(cFile, aFile, entryTable, stateTable, direction, dryRun, diff, syncRow, conflicts)

\* sync(options) after its diff, sync state lookup and conflict detection: the
\* files and tables it leaves, the files it wrote (in order) and its result
SyncFrom(cFile, aFile, entryTable, stateTable, direction, dryRun, diff, syncRow, conflicts) ==
  IF dryRun
  THEN DryRunReturn(cFile, aFile, entryTable, stateTable, direction, dryRun, diff, syncRow, conflicts)
  ELSE RealRun(cFile, aFile, entryTable, stateTable, direction, dryRun, diff, syncRow, conflicts)

NotManaged(section) == ~section.managed

sync(cFile, aFile, entryTable, stateTable, direction, dryRun) ==
  With(diffSections(SelectSeq(parseClaudeMd(cFile), NotManaged),
                    SelectSeq(parseAgentsMd(aFile), NotManaged)),
       LAMBDA diff :
  With(getSyncState(stateTable, CLAUDE_MD_PATH, AGENTS_MD_PATH), LAMBDA syncRow :
  With(DetectConflicts(cFile, aFile, syncRow, direction, diff), LAMBDA conflicts :
    SyncFrom(cFile, aFile, entryTable, stateTable, direction, dryRun, diff, syncRow, conflicts))))

getSyncDrift(cFile, aFile, stateTable) ==
  With(getSyncState(stateTable, CLAUDE_MD_PATH, AGENTS_MD_PATH), LAMBDA syncRow :
    IF ~syncRow.found
    THEN [drifted |-> TRUE, claudeChanged |-> TRUE, agentsChanged |-> TRUE]
    ELSE [drifted |-> CurrentHash(cFile) # syncRow.row.source_hash
                        \/ CurrentHash(aFile) # syncRow.row.target_hash,
          claudeChanged |-> CurrentHash(cFile) # syncRow.row.source_hash,
          agentsChanged |-> CurrentHash(aFile) # syncRow.row.target_hash])

(***************************************************************************)
(* Correction detector                                                     *)
(***************************************************************************)
\* A regular expression of CORRECTION_PATTERNS is a sequence of elements:
\* alternatives of literal words, \s+, an optional comma, a lazy group (.+?)
\* and the closing (?:\.|$).  The texts of the model separate words by one
\* blank and hold no word that ends with a keyword other than the keyword.
Lit(alts) == [k |-> "lit", alts |-> alts, toks |-> {}]
Ws == [k |-> "ws", alts |-> {}, toks |-> {}]
OptComma == [k |-> "opt", alts |-> {}, toks |-> {","}]
Cap == [k |-> "cap", alts |-> {}, toks |-> {}]
End(toks) == [k |-> "end", alts |-> {}, toks |-> toks]

\* confidences are fractions <<numerator, denominator>>
CORRECTION_PATTERNS ==
  << [pattern |-> <<Lit({<<"actually">>, <<"no">>}), OptComma, Ws,
                    Lit({<<"use">>, <<"its">>, <<"it's">>, <<"we", SP, "should", SP, "use">>, <<"prefer">>}),
                    Ws, Cap, Ws,
                    Lit({<<"instead", SP, "of">>, <<"not">>, <<"rather", SP, "than">>}),
                    Ws, Cap, End({"."})>>,
      incorrect |-> 2, correct |-> 1, confidence |-> <<80, 100>>],
     [pattern |-> <<Lit({<<"dont">>, <<"don't">>, <<"do", SP, "not">>, <<"never">>}), Ws, Lit({<<"use">>}),
                    Ws, Cap, OptComma, Ws, Lit({<<"use">>, <<"prefer">>}), Ws, Cap, End({"."})>>,
      incorrect |-> 1, correct |-> 2, confidence |-> <<85, 100>>],
     [pattern |-> <<Cap, Ws, Lit({<<"is">>, <<"was">>}), Ws,
                    Lit({<<"wrong">>, <<"incorrect">>, <<"outdated">>, <<"deprecated">>}), OptComma, Ws,
                    Lit({<<"should", SP, "be">>, <<"use">>, <<"its">>, <<"it's">>}), Ws, Cap, End({"."})>>,
      incorrect |-> 1, correct |-> 2, confidence |-> <<75, 100>>],
     [pattern |-> <<Lit({<<"change">>, <<"changed">>, <<"rename">>, <<"renamed">>, <<"update">>,
                         <<"updated">>, <<"replace">>, <<"replaced">>, <<"switche">>, <<"switched">>}),
                    Ws, Cap, Ws, Lit({<<"to">>, <<"with">>}), Ws, Cap, End({"."})>>,
      incorrect |-> 1, correct |-> 2, confidence |-> <<60, 100>>],
     [pattern |-> <<Lit({<<"the">>}), Ws, Lit({<<"correct">>, <<"right">>, <<"proper">>}), Ws,
                    Lit({<<"way">>, <<"approach">>, <<"method">>, <<"pattern">>}), Ws,
                    Lit({<<"is">>, <<"to">>}), Ws, Cap, End({"."})>>,
      incorrect |-> 0, correct |-> 1, confidence |-> <<50, 100>>],
     [pattern |-> <<Lit({<<"stop", SP, "using">>, <<"no", SP, "longer", SP, "use">>, <<"deprecated">>,
                         <<"removed">>}),
                    Ws, Cap, End({".", ","})>>,
      incorrect |-> 1, correct |-> 0, confidence |-> <<70, 100>>] >>

\* every way the elements p.. of a pattern match the text from position i:
\* the position after the match and the texts of the groups
RECURSIVE MatchFrom(_, _, _, _, _)
MatchFrom(text, lower, pat, i, p) ==
  IF p > Len(pat) THEN {[end |-> i, caps |-> <<>>]}
  ELSE
    CASE pat[p].k = "lit" ->
           UNION {MatchFrom(text, lower, pat, i + Len(a), p + 1) :
                    a \in {a \in pat[p].alts :
                             i + Len(a) - 1 <= Len(text) /\ SubSeq(lower, i, i + Len(a) - 1) = a}}
      [] pat[p].k = "ws" ->
           UNION {MatchFrom(text, lower, pat, j + 1, p + 1) :
                    j \in {j \in i..Len(text) : \A q \in i..j : IsSpace(text[q])}}
      [] pat[p].k = "opt" ->
           MatchFrom(text, lower, pat, i, p + 1)
             \cup (IF i <= Len(text) /\ text[i] \in pat[p].toks
                   THEN MatchFrom(text, lower, pat, i + 1, p + 1) ELSE {})
      [] pat[p].k = "cap" ->
           UNION {{[m EXCEPT !.caps = <<SubSeq(text, i, j)>> \o @] :
                     m \in MatchFrom(text, lower, pat, j + 1, p + 1)} :
                    j \in {j \in i..Len(text) : \A q \in i..j : text[q] # NL}}
      [] pat[p].k = "end" ->
           (IF i > Len(text) THEN MatchFrom(text, lower, pat, i, p + 1) ELSE {})
             \cup (IF i <= Len(text) /\ text[i] \in pat[p].toks
                   THEN MatchFrom(text, lower, pat, i + 1, p + 1) ELSE {})

\* the match the backtracking search finds first: lazy groups as short as possible
FirstMatch(ms) ==
  LET Key(m) == <<Len(m.caps[1]), IF Len(m.caps) > 1 THEN Len(m.caps[2]) ELSE 0, m.end>>
      Le(x, y) == \/ x[1] < y[1]
                  \/ x[1] = y[1] /\ x[2] < y[2]
                  \/ x[1] = y[1] /\ x[2] = y[2] /\ x[3] <= y[3]
  IN CHOOSE m \in ms : \A o \in ms : Le(Key(m), Key(o))

\* while ((match = pattern.exec(text)) !== null): the matches from lastIndex on
RECURSIVE ExecAll(_, _, _, _)
ExecAll(text, lower, pat, lastIndex) ==
  IF lastIndex > Len(text) THEN <<>>
  ELSE With(MatchFrom(text, lower, pat, lastIndex, 1), LAMBDA ms :
         IF ms = {} THEN ExecAll(text, lower, pat, lastIndex + 1)
         ELSE With(FirstMatch(ms), LAMBDA m : <<m>> \o ExecAll(text, lower, pat, m.end)))

\* `${incorrect}|${correct}`
PairKey(c) == c.incorrect \o <<"|">> \o c.correct

deduplicateCandidates(candidates) ==
  LET Seen(i) == \E j \in 1..(i - 1) :
                   toLowerCase(PairKey(candidates[j])) = toLowerCase(PairKey(candidates[i]))
      F[i \in 0..Len(candidates)] ==
        IF i = 0 THEN <<>>
        ELSE IF Seen(i) THEN F[i - 1] ELSE Append(F[i - 1], candidates[i])
  IN F[Len(candidates)]

\* the candidates one pattern yields; the texts are shorter than the context radius
PatternCandidates(text, pt) ==
  With(ExecAll(text, toLowerCase(text), pt.pattern, 1), LAMBDA ms :
    [i \in 1..Len(ms) |->
       [incorrect |-> IF pt.incorrect = 0 THEN <<>> ELSE ms[i].caps[pt.incorrect],
        correct |-> IF pt.correct = 0 THEN <<>> ELSE ms[i].caps[pt.correct],
        context |-> trim(text),
        confidence |-> pt.confidence,
        source |-> "pattern"]])

detectCorrections(text) ==
  LET F[k \in 0..Len(CORRECTION_PATTERNS)] ==
        IF k = 0 THEN <<>> ELSE F[k - 1] \o PatternCandidates(text, CORRECTION_PATTERNS[k])
  IN deduplicateCandidates(F[Len(CORRECTION_PATTERNS)])

\* new Set(s.toLowerCase().split(/\W+/).filter(w => w.length > 1))
WordSet(text) ==
  {w \in UNION {{Words(Lower(text[i]))[k] : k \in 1..Len(Words(Lower(text[i])))} : i \in 1..Len(text)} :
     WordLen(w) > 1}

wordSimilarity(a, b) ==
  With(WordSet(a), LAMBDA wordsA :
  With(WordSet(b), LAMBDA wordsB :
    IF wordsA = {} /\ wordsB = {} THEN <<1, 1>>
    ELSE IF wordsA = {} \/ wordsB = {} THEN <<0, 1>>
    ELSE With(Cardinality(wordsA \cap wordsB), LAMBDA intersection :
           <<intersection, Cardinality(wordsA) + Cardinality(wordsB) - intersection>>)))

\* sim > 0.3 && sim < 0.95
SimilarEnough(sim) == 10 * sim[1] > 3 * sim[2] /\ 100 * sim[1] < 95 * sim[2]

\* the lines of one text that are not lines of the other and are not blank
LinesNotIn(ls, others) ==
  SelectSeq(ls, LAMBDA l : (~\E i \in 1..Len(others) : others[i] = l) /\ trim(l) # <<>>)

Min(a, b) == IF a < b THEN a ELSE b

\* most removed or added lines that are still paired
MaxEditLines == 3

detectCorrectionInEdit(filePath, oldContent, newContent) ==
  With(LinesNotIn(split(oldContent), split(newContent)), LAMBDA removed :
  With(LinesNotIn(split(newContent), split(oldContent)), LAMBDA added :
    IF Len(removed) > 0 /\ Len(added) > 0 /\ Len(removed) <= MaxEditLines /\ Len(added) <= MaxEditLines
    THEN LET F[i \in 0..Min(Len(removed), Len(added))] ==
               IF i = 0 THEN <<>>
               ELSE With(wordSimilarity(removed[i], added[i]), LAMBDA sim :
                      IF SimilarEnough(sim)
                      THEN Append(F[i - 1],
                                  [incorrect |-> trim(removed[i]),
                                   correct |-> trim(added[i]),
                                   context |-> <<"File:", SP, filePath>>,
                                   \* sim * 0.6
                                   confidence |-> <<6 * sim[1], 10 * sim[2]>>,
                                   source |-> "pattern"])
                      ELSE F[i - 1])
         IN F[Min(Len(removed), Len(added))]
    ELSE <<>>))

(***************************************************************************)
(* Correction classifier                                                   *)
(***************************************************************************)
\* s.toLowerCase().trim().replace(/\s+/g, ' ')
normalize(s) ==
  With(trim(toLowerCase(s)), LAMBDA t :
    LET F[i \in 0..Len(t)] ==
          IF i = 0 THEN <<>>
          ELSE IF IsSpace(t[i])
               THEN (IF i > 1 /\ IsSpace(t[i - 1]) THEN F[i - 1] ELSE Append(F[i - 1], SP))
               ELSE Append(F[i - 1], t[i])
    IN F[Len(t)])

\* the words of the vocabulary that hold a path separator
PathTokens == {".claude/rules", ".claude/settings"}

classifier_extractPaths(content) ==
  SelectSeq(content, LAMBDA t : t \in PathTokens)

classifier_inferCategory(content) ==
  LET has(needle) == includesTok(content, needle)
      hasBefore(w) == includes(content, <<w, SP>>)
  IN IF has("test") \/ has("spec") THEN "testing"
     ELSE IF has("security") \/ has("auth") \/ has("csrf") THEN "security"
     ELSE IF has("api") \/ has("endpoint") \/ has("route") THEN "architecture"
     ELSE IF has("database") \/ has("migration") \/ has("query") THEN "architecture"
     ELSE IF has("install") \/ has("package") \/ has("dependency") THEN "dependency"
     ELSE IF has("deploy") \/ has("build") \/ has("ci/cd") THEN "workflow"
     ELSE IF has("command") \/ hasBefore("run") \/ hasBefore("npm") THEN "command"
     ELSE IF has("style") \/ has("naming") \/ has("convention") THEN "coding_standard"
     ELSE IF has("debug") \/ has("error") \/ has("fix") THEN "debugging"
     ELSE IF has("prefer") \/ hasBefore("use") THEN "preference"
     ELSE "correction"

\* a candidate of the detector has no category and no paths, one of the
\* extractor has both
classifyCorrection(candidate, source) ==
  With(toLowerCase(candidate.incorrect \o <<SP>> \o candidate.correct), LAMBDA content :
    [incorrect |-> candidate.incorrect,
     correct |-> candidate.correct,
     category |-> IF "category" \in DOMAIN candidate THEN candidate.category
                  ELSE classifier_inferCategory(content),
     paths |-> IF "paths" \in DOMAIN candidate THEN candidate.paths
               ELSE classifier_extractPaths(content),
     confidence |-> candidate.confidence,
     source |-> source,
     isFlipFlop |-> FALSE])

detectFlipFlop_OneSided(correction, existingCorrections) ==
  \E i \in 1..Len(existingCorrections) :
    normalize(existingCorrections[i].incorrect) = normalize(correction.correct)

detectFlipFlop(correction, existingCorrections) ==
  \E i \in 1..Len(existingCorrections) :
    /\ normalize(existingCorrections[i].correct) = normalize(correction.incorrect)
    /\ normalize(existingCorrections[i].incorrect) = normalize(correction.correct)

\* one loop of mergeCorrections
MergeLoop(seen0, results, source) ==
  LET F[i \in 0..Len(results)] ==
        IF i = 0 THEN [seen |-> seen0, classified |-> <<>>]
        ELSE With(F[i - 1], LAMBDA st :
             With(normalize(PairKey(results[i])), LAMBDA key :
               IF key \in st.seen THEN st
               ELSE [seen |-> st.seen \cup {key},
                     classified |-> Append(st.classified, classifyCorrection(results[i], source))]))
  IN F[Len(results)]

mergeCorrections(patternResults, llmResults) ==
  With(MergeLoop({}, llmResults, "llm"), LAMBDA llm :
    llm.classified \o MergeLoop(llm.seen, patternResults, "pattern").classified)

(***************************************************************************)
(* Correction pipeline                                                     *)
(***************************************************************************)
createCorrection(table, correction) ==
  Append(table, [id |-> Len(table) + 1,
                 incorrect |-> correction.incorrect,
                 correct |-> correction.correct,
                 category |-> correction.category,
                 paths |-> correction.paths,
                 confidence |-> correction.confidence,
                 source |-> correction.source,
                 session_id |-> correction.session_id])

\* SELECT * FROM corrections ORDER BY created_at DESC
getCorrections(table) == [i \in 1..Len(table) |-> table[Len(table) + 1 - i]]

QUOTE == "\""

\* the content of the memory entry of a correction
MemoryContent(correction) ==
  IF correction.incorrect # <<>>
  THEN <<"Correction:", SP, QUOTE>> \o correction.incorrect
         \o <<QUOTE, SP, "should", SP, "be", SP, QUOTE>> \o correction.correct \o <<QUOTE>>
  ELSE <<"Note:", SP>> \o correction.correct

\* a gate that leaves the threshold itself out
HighConfidence_Above(confidence) == 10 * confidence[1] > 7 * confidence[2]

\* correction.confidence >= 0.7
HighConfidence(confidence) == 10 * confidence[1] >= 7 * confidence[2]

\* candidate.confidence < 0.4
LowConfidence(confidence) == 10 * confidence[1] < 4 * confidence[2]

\* the source a stored correction was classified with
StoredAsClassified(row) ==
  classifyCorrection([incorrect |-> row.incorrect, correct |-> row.correct,
                      confidence |-> row.confidence, context |-> <<>>, source |-> "pattern"],
                     row.source)

\* steps 3 and 4 of processTranscript, after the detection and the extraction:
\* the tables it leaves and the corrections it returns
processTranscriptFrom(entryTable, correctionTable, patternCandidates, llmResults, sessionId) ==
  With(mergeCorrections(patternCandidates, llmResults), LAMBDA classified :
  With(Map(getCorrections(correctionTable), StoredAsClassified), LAMBDA existingCorrections :
    LET F[i \in 0..Len(classified)] ==
          IF i = 0
          THEN [entries |-> entryTable, corrections |-> correctionTable, newCorrections |-> <<>>]
          ELSE With(F[i - 1], LAMBDA st :
               With(classified[i], LAMBDA correction :
                 IF getEntryByHash(st.entries, contentHash(PairKey(correction))).found THEN st
                 ELSE
                   With(createCorrection(st.corrections,
                          [incorrect |-> correction.incorrect,
                           correct |-> correction.correct,
                           category |-> correction.category,
                           paths |-> correction.paths,
                           confidence |-> correction.confidence,
                           source |-> IF correction.source = "llm" THEN "hook_llm" ELSE "hook_pattern",
                           session_id |-> sessionId]),
                        LAMBDA table :
                     IF HighConfidence(correction.confidence)
                        /\ ~detectFlipFlop(correction, existingCorrections)
                     THEN [entries |->
                             createEntry(st.entries,
                               [content |-> MemoryContent(correction),
                                category |-> correction.category,
                                source |-> [type |-> "correction_capture", file_path |-> <<>>],
                                targets |-> <<>>,
                                tags |-> <<"correction", "auto-captured">>,
                                content_hash |-> contentHash(MemoryContent(correction))]),
                           corrections |-> table,
                           newCorrections |->
                             Append(st.newCorrections,
                                    [row |-> table[Len(table)], memory_entry_id |-> Len(st.entries) + 1])]
                     ELSE [entries |-> st.entries,
                           corrections |-> table,
                           newCorrections |->
                             Append(st.newCorrections, [row |-> table[Len(table)], memory_entry_id |-> 0])])))
    IN F[Len(classified)]))

(***************************************************************************)
(* Extraction oracle: what the model API call does is an input             *)
(***************************************************************************)
VALID_CATEGORIES ==
  {"coding_standard", "architecture", "command", "convention", "debugging", "preference",
   "workflow", "dependency", "security", "testing", "correction"}

validateCategory(cat) == IF cat \in VALID_CATEGORIES THEN cat ELSE "correction"

\* Math.max(0, Math.min(1, Number(c.confidence) || 0.5)) on a fraction
ClampConfidence(confidence) ==
  IF confidence[1] = 0 THEN <<5, 10>>
  ELSE IF confidence[1] > confidence[2] THEN <<1, 1>>
  ELSE IF confidence[1] < 0 THEN <<0, 1>>
  ELSE confidence

\* A response of the API either throws or is a text.  The text holds no
\* braces (json = "none"), braces around something JSON.parse rejects
\* ("invalid"), or a JSON object ("object").  The object has a corrections
\* member that is absent, an array of items, or something else.
ExtractFromResponse(response) ==
  IF response.json = "none" THEN <<>>
  ELSE IF response.json = "invalid" THEN <<>>
  ELSE IF response.corrections = "absent" THEN <<>>
  ELSE IF response.corrections = "not_array" THEN <<>>
  ELSE Map(SelectSeq(response.items, LAMBDA c : c.incorrect # <<>> \/ c.correct # <<>>),
           LAMBDA c : [incorrect |-> c.incorrect,
                       correct |-> c.correct,
                       category |-> validateCategory(c.category),
                       paths |-> c.paths,
                       confidence |-> ClampConfidence(c.confidence)])

\* the import and the API call stand outside the try block of the extractor:
\* what they throw leaves the function
extractCorrectionsWithLLM(response) ==
  IF response.throws THEN [threw |-> TRUE, corrections |-> <<>>]
  ELSE [threw |-> FALSE, corrections |-> ExtractFromResponse(response)]

OracleResults_NoKeyTest(apiKey, response) ==
  With(extractCorrectionsWithLLM(response), LAMBDA llmResult :
    IF llmResult.threw THEN <<>> ELSE llmResult.corrections)

\* steps 1 and 2 of processTranscript: llmResults
OracleResults(apiKey, response) ==
  IF apiKey
  THEN With(extractCorrectionsWithLLM(response), LAMBDA llmResult :
         IF llmResult.threw THEN <<>> ELSE llmResult.corrections)
  ELSE <<>>

processTranscript(entryTable, correctionTable, transcript, apiKey, response, sessionId) ==
  processTranscriptFrom(entryTable, correctionTable, detectCorrections(transcript),
                        OracleResults(apiKey, response), sessionId)

processEdit(entryTable, correctionTable, filePath, oldContent, newContent, sessionId) ==
  With(detectCorrectionInEdit(filePath, oldContent, newContent), LAMBDA candidates :
    LET F[i \in 0..Len(candidates)] ==
          IF i = 0
          THEN [entries |-> entryTable, corrections |-> correctionTable, newCorrections |-> <<>>]
          ELSE With(F[i - 1], LAMBDA st :
               With(candidates[i], LAMBDA candidate :
                 IF LowConfidence(candidate.confidence) THEN st
                 ELSE IF getEntryByHash(st.entries, contentHash(PairKey(candidate))).found THEN st
                 ELSE
                   With(createCorrection(st.corrections,
                          [incorrect |-> candidate.incorrect,
                           correct |-> candidate.correct,
                           category |-> "correction",
                           paths |-> <<filePath>>,
                           confidence |-> candidate.confidence,
                           source |-> "hook_pattern",
                           session_id |-> sessionId]),
                        LAMBDA table :
                     [st EXCEPT !.corrections = table,
                                !.newCorrections = Append(@, [row |-> table[Len(table)],
                                                              memory_entry_id |-> 0])])))
    IN F[Len(candidates)])

(***************************************************************************)
(* State shared by the specifications                                      *)
(***************************************************************************)
\* the state before the operation that `last` describes
Snapshot ==
  [claudeFile |-> claudeFile, agentsFile |-> agentsFile, entries |-> entries,
   corrections |-> corrections, syncState |-> syncState, last |-> last]

\* the empty sync_state table
NoSyncState == <<>>

NoInput == [kind |-> "none"]

\* sequences over S of length at most n
SeqsUpTo(S, n) == UNION {[1..k -> S] : k \in 0..n}

(***************************************************************************)
(* Specification SpecWriter: writeManagedSection called repeatedly with    *)
(* the same arguments on one file                                          *)
(***************************************************************************)
WriterAlphabet == {"a", NL, SP, StartMarker("synced"), EndMarker("synced")}

WriterFiles == {NoFile} \cup {File(t) : t \in SeqsUpTo(WriterAlphabet, MaxWriterLen)}

WriterEntryContents == {<<"a">>, <<"-", SP, "b">>}

WriterEntries ==
  {[i \in 1..Len(cs) |-> buildEntry(cs[i], NoHeading, 0)] : cs \in SeqsUpTo(WriterEntryContents, MaxEntries)}

WriterInputs ==
  [kind : {"write"}, managedId : MarkerIds, heading : {<<>>, <<"Rules">>}, entries : WriterEntries]

MaxWrites == 3

InitWriter ==
  /\ claudeFile = NoFile
  /\ agentsFile \in WriterFiles
  /\ entries = <<>>
  /\ corrections = <<>>
  /\ syncState = NoSyncState
  /\ inp \in WriterInputs
  /\ last = [op |-> "init", n |-> 0]
  /\ prev = [op |-> "none"]

WriteManaged ==
  /\ inp.kind = "write"
  /\ last.n < MaxWrites
  /\ agentsFile' = writeManagedSection(agentsFile, inp.managedId, inp.heading, inp.entries)
  /\ last' = [op |-> "writeManagedSection", n |-> last.n + 1]
  /\ prev' = Snapshot
  /\ UNCHANGED <<claudeFile, entries, corrections, syncState, inp>>

NextWriter == WriteManaged

SpecWriter == InitWriter /\ [][NextWriter]_vars

\* C3: for any initial file content (including an absent file) and any
\* identifier, heading and entry list, a second call of writeManagedSection with
\* the same arguments leaves the file byte-identical to the content after the
\* first call.
C3_WriteIdempotent ==
  (last.op = "writeManagedSection" /\ last.n >= 2) => agentsFile = prev.agentsFile

(***************************************************************************)
(* Specification SpecParser: parse, serialize, parse again                 *)
(***************************************************************************)
ParserLines ==
  { <<>>,
    <<"#", SP, "Rules">>,
    <<"-", SP, "a">>,
    <<SP, "-", SP, "b">>,
    <<"a">>,
    <<StartMarker("synced")>>,
    <<EndMarker("synced")>> }

ParserTexts == {join(ls, <<NL>>) : ls \in SeqsUpTo(ParserLines, MaxParserLines)}

\* the (section heading, managed flag, entry content) tuples of a document,
\* in document order
RECURSIVE EntryTuples(_)
EntryTuples(sections) ==
  IF sections = <<>> THEN <<>>
  ELSE LET sec == Head(sections) IN
       [i \in 1..Len(sec.entries) |-> <<sec.heading, sec.managed, sec.entries[i].content>>]
         \o With(Tail(sections), LAMBDA rest : EntryTuples(rest))

Count(seq, x) == Cardinality({i \in 1..Len(seq) : seq[i] = x})

SameBag(a, b) == Len(a) = Len(b) /\ \A i \in 1..Len(a) : Count(a, a[i]) = Count(b, a[i])

InitParser ==
  /\ claudeFile \in {File(t) : t \in ParserTexts}
  /\ agentsFile = NoFile
  /\ entries = <<>>
  /\ corrections = <<>>
  /\ syncState = NoSyncState
  /\ inp \in [kind : {"parse"}, type : {"claude_md", "agents_md"}]
  /\ last = [op |-> "init"]
  /\ prev = [op |-> "none"]

\* parse(x), serialize it, parse the serialization
RoundTrip ==
  /\ inp.kind = "parse"
  /\ last.op = "init"
  /\ last' =
       With(IF inp.type = "claude_md" THEN parseClaudeMd(claudeFile) ELSE parseAgentsMd(claudeFile),
            LAMBDA first :
              LET text == IF inp.type = "claude_md" THEN serializeClaudeMd(first)
                          ELSE serializeAgentsMd(first)
                  second == IF inp.type = "claude_md" THEN parseClaudeMd(File(text))
                            ELSE parseAgentsMd(File(text))
              IN [op |-> "roundTrip", type |-> inp.type,
                  first |-> EntryTuples(first), second |-> EntryTuples(second)])
  /\ prev' = Snapshot
  /\ UNCHANGED <<claudeFile, agentsFile, entries, corrections, syncState, inp>>

NextParser == RoundTrip

SpecParser == InitParser /\ [][NextParser]_vars

\* C4: for every input text x, parse(serialize(parse(x))) has the same
\* multiset of (section heading, managed flag, entry content) tuples as
\* parse(x), for the primary and for the mirror parser/serializer pair.
C4_RoundTrip == last.op = "roundTrip" => SameBag(last.first, last.second)

\* a primary document with a managed entry and an unmanaged entry went round
C4_Witness ==
  /\ last.op = "roundTrip"
  /\ last.type = "claude_md"
  /\ \E i, j \in 1..Len(last.first) : last.first[i][2] /\ ~last.first[j][2]

(***************************************************************************)
(* Specification SpecDiffer: diffEntries on two entry collections          *)
(***************************************************************************)
DifferContents ==
  { <<"always", SP, "use", SP, "strict", SP, "mode">>,
    <<"always", SP, "use", SP, "strict", SP, "mode", SP, "tabs">>,
    <<"always", SP, "use", SP, "strict", SP, "mode", SP, "rule">>,
    <<"always", SP, "use">>,
    <<"rule", SP, "a">>,
    <<"rule", SP, "b">> }

DifferEntries == {buildEntry(c, NoHeading, 0) : c \in DifferContents}

InitDiffer ==
  /\ claudeFile = NoFile
  /\ agentsFile = NoFile
  /\ entries = <<>>
  /\ corrections = <<>>
  /\ syncState = NoSyncState
  /\ inp \in [kind : {"diff"}, source : SeqsUpTo(DifferEntries, MaxSource),
              target : SeqsUpTo(DifferEntries, MaxTarget)]
  /\ last = [op |-> "init"]
  /\ prev = [op |-> "none"]

Diff ==
  /\ inp.kind = "diff"
  /\ last.op = "init"
  /\ last' = [op |-> "diffEntries", result |-> diffEntries(inp.source, inp.target)]
  /\ prev' = Snapshot
  /\ UNCHANGED <<claudeFile, agentsFile, entries, corrections, syncState, inp>>

NextDiffer == Diff

SpecDiffer == InitDiffer /\ [][NextDiffer]_vars

Range(seq) == {seq[i] : i \in 1..Len(seq)}

\* fingerprints of a list of entries
Hashes(es) == {contentHash(e.content) : e \in Range(es)}

ModifiedSources(r) == {contentHash(m.source.content) : m \in Range(r.modified)}

ModifiedTargets(r) == {contentHash(m.target.content) : m \in Range(r.modified)}

\* C5: every source entry whose fingerprint equals the fingerprint of some
\* target entry is reported unchanged, whatever the order of the source entries
\* and whatever else the collections hold, and is never reported as added or
\* as the source of a modified pair.
C5_ExactMatchUnchanged ==
  last.op = "diffEntries" =>
    \A h \in Hashes(inp.source) \cap Hashes(inp.target) :
      /\ h \in Hashes(last.result.unchanged)
      /\ h \notin Hashes(last.result.added)
      /\ h \notin ModifiedSources(last.result)

\* position of the first entry of a list with fingerprint h
FirstIdx(es, h) ==
  CHOOSE i \in 1..Len(es) :
    contentHash(es[i].content) = h /\ \A j \in 1..(i - 1) : contentHash(es[j].content) # h

\* similarity of the source entry with fingerprint h to the target entry with
\* fingerprint t
SimTo(h, t) ==
  similarity(inp.source[FirstIdx(inp.source, h)].content, inp.target[FirstIdx(inp.target, t)].content)

\* fingerprints of the target entries no earlier source entry was paired with
Remaining(h) ==
  Hashes(inp.target) \
    {contentHash(m.target.content) :
       m \in {x \in Range(last.result.modified) :
                FirstIdx(inp.source, contentHash(x.source.content)) < FirstIdx(inp.source, h)}}

\* the remaining targets of maximal similarity to the source entry h
Maximal(h) == {t \in Remaining(h) : \A u \in Remaining(h) : ~FracGt(SimTo(h, u), SimTo(h, t))}

\* C6: a source entry without an exact fingerprint match is reported as
\* modified, paired with the remaining target entry of maximal word-set Jaccard
\* similarity, if and only if that maximal similarity is strictly greater than
\* 0.5; otherwise it is reported as added.  Among several targets of maximal
\* similarity the first in target insertion order is chosen.
C6_FuzzyMatch ==
  last.op = "diffEntries" =>
    \A h \in Hashes(inp.source) \ Hashes(inp.target) :
      LET pairs == {k \in 1..Len(last.result.modified) :
                      contentHash(last.result.modified[k].source.content) = h}
      IN /\ Cardinality(pairs) <= 1
         /\ pairs # {} <=> \E t \in Maximal(h) : AboveHalf(SimTo(h, t))
         /\ pairs = {} <=> h \in Hashes(last.result.added)
         /\ \A k \in pairs :
              LET m == last.result.modified[k]
                  t == contentHash(m.target.content)
              IN /\ t \in Maximal(h)
                 /\ \A u \in Maximal(h) : FirstIdx(inp.target, t) <= FirstIdx(inp.target, u)
                 /\ m.similarity = SimTo(h, t)
                 /\ AboveHalf(m.similarity)

\* a modified pair was chosen among two remaining targets of equal maximal
\* similarity, and another source entry was reported as added
C6_Witness ==
  /\ last.op = "diffEntries"
  /\ \E m \in Range(last.result.modified) :
       /\ contentHash(m.source.content) \notin Hashes(inp.target)
       /\ Cardinality(Maximal(contentHash(m.source.content))) >= 2
  /\ \E a \in Range(last.result.added) :
       /\ contentHash(a.content) \notin Hashes(inp.target)
       /\ Remaining(contentHash(a.content)) # {}

\* C7: removed holds exactly the target entries whose fingerprint matches no
\* source entry and which are not the target of a modified pair; no entry is
\* both removed and the target of a modified pair.
C7_RemovedSet ==
  last.op = "diffEntries" =>
    /\ Hashes(last.result.removed) =
         {h \in Hashes(inp.target) : h \notin Hashes(inp.source) /\ h \notin ModifiedTargets(last.result)}
    /\ Hashes(last.result.removed) \cap ModifiedTargets(last.result) = {}
    /\ Cardinality(Hashes(last.result.removed)) = Len(last.result.removed)

\* one target entry was removed, another is the target of a modified pair and
\* a third kind, an exact match, is in neither bucket
C7_Witness ==
  /\ last.op = "diffEntries"
  /\ last.result.removed # <<>>
  /\ last.result.modified # <<>>


(***************************************************************************)
(* Specification Spec: sync runs and user edits on one document pair       *)
(***************************************************************************)
Line(words) == <<"-", SP>> \o join([i \in 1..Len(words) |-> <<words[i]>>], <<SP>>)

Doc(lines) == join(lines, <<NL>>) \o <<NL>>

SyncClaudeDocs ==
  {NoFile,
   File(Doc(<< <<"#", SP, "Rules">>,
               Line(<<"always", "use", "strict", "mode">>),
               Line(<<"Claude", "Code", "should", "run", "tests">>),
               Line(<<"hooks:", "run", "the", "tests">>) >>)),
   File(Doc(<< Line(<<"always", "use", "strict", "tabs">>) >>))}

SyncAgentsDocs ==
  {NoFile,
   File(Doc(<< Line(<<"always", "use", "strict", "mode">>), Line(<<"run", "the", "tests">>) >>)),
   File(Doc(<< Line(<<"always", "use", "strict", "tabs">>), Line(<<"use", ".claude/rules">>) >>)),
   File(<<EndMarker(MANAGED_ID), NL>>)}

\* the sync_state table before the first step: empty, or the row that a sync
\* of two absent files has recorded
SyncStateTables ==
  {NoSyncState}
    \cup {upsertSyncState(NoSyncState, [source_file |-> CLAUDE_MD_PATH, target_file |-> AGENTS_MD_PATH,
                                        source_hash |-> CurrentHash(NoFile),
                                        target_hash |-> CurrentHash(NoFile),
                                        direction |-> "bidirectional"])}

\* the line a user edit appends
EditLine == Line(<<"use", "tabs", "not", "mode">>)

MaxOps == 3

Init ==
  /\ claudeFile \in SyncClaudeDocs
  /\ agentsFile \in SyncAgentsDocs
  /\ entries = <<>>
  /\ corrections = <<>>
  /\ syncState \in SyncStateTables
  /\ inp = [kind |-> "sync"]
  /\ last = [op |-> "init", n |-> 0]
  /\ prev = [op |-> "none"]

Sync ==
  /\ inp.kind = "sync"
  /\ last.n < MaxOps
  /\ \E direction \in Directions, dryRun \in BOOLEAN :
       \E r \in {sync(claudeFile, agentsFile, entries, syncState, direction, dryRun)} :
         /\ claudeFile' = r.claudeFile
         /\ agentsFile' = r.agentsFile
         /\ entries' = r.entries
         /\ syncState' = r.syncState
         /\ last' = [op |-> "sync", n |-> last.n + 1, direction |-> direction, dryRun |-> dryRun,
                     writes |-> r.writes, result |-> r.result]
  /\ prev' = Snapshot
  /\ UNCHANGED <<corrections, inp>>

\* the user appends a line to one of the two documents
Append_(file, line) == File((IF file.exists THEN file.content ELSE <<>>) \o line \o <<NL>>)

EditClaude ==
  /\ inp.kind = "sync"
  /\ last.n < MaxOps
  /\ claudeFile' = Append_(claudeFile, EditLine)
  /\ last' = [op |-> "edit", n |-> last.n + 1, path |-> CLAUDE_MD_PATH]
  /\ prev' = Snapshot
  /\ UNCHANGED <<agentsFile, entries, corrections, syncState, inp>>

EditAgents ==
  /\ inp.kind = "sync"
  /\ last.n < MaxOps
  /\ agentsFile' = Append_(agentsFile, EditLine)
  /\ last' = [op |-> "edit", n |-> last.n + 1, path |-> AGENTS_MD_PATH]
  /\ prev' = Snapshot
  /\ UNCHANGED <<claudeFile, entries, corrections, syncState, inp>>

Next == Sync \/ EditClaude \/ EditAgents

Spec == Init /\ [][Next]_vars

\* the last step repeats a real sync right after a real sync in the same direction
SecondSync ==
  /\ last.op = "sync" /\ ~last.dryRun
  /\ prev.last.op = "sync" /\ ~prev.last.dryRun
  /\ prev.last.direction = last.direction

\* C1: a second non-dry-run sync, invoked right after a completed non-dry-run
\* sync with the same direction and no edits in between, writes to neither
\* document and reports zero added, zero removed and zero updated entries.
C1_SyncIdempotent ==
  SecondSync =>
    /\ last.writes = <<>>
    /\ last.result.entriesAdded = 0
    /\ last.result.entriesRemoved = 0
    /\ last.result.entriesUpdated = 0

\* C2: a second non-dry-run sync right after a non-dry-run sync leaves both
\* documents byte-identical, creates no memory entry, leaves exactly one sync
\* state record for the path pair, with the same identity and hashes, and
\* getSyncDrift reports no drift after either run.
C2_SyncFixedPoint ==
  SecondSync =>
    /\ claudeFile = prev.claudeFile
    /\ agentsFile = prev.agentsFile
    /\ entries = prev.entries
    /\ Len(syncState) = 1
    /\ syncState = prev.syncState
    /\ ~getSyncDrift(claudeFile, agentsFile, syncState).drifted
    /\ ~getSyncDrift(prev.claudeFile, prev.agentsFile, prev.syncState).drifted

\* the last step is a real sync right after a dry run in the same direction
\* (the dry run has left the inputs as they were)
RealAfterDry ==
  /\ last.op = "sync" /\ ~last.dryRun
  /\ prev.last.op = "sync" /\ prev.last.dryRun
  /\ prev.last.direction = last.direction

\* C8: a dry run reports the same entriesAdded, entriesUpdated, entriesRemoved
\* and conflicts as the real run on the same inputs.
C8_DryRunEquivalence ==
  RealAfterDry =>
    /\ last.result.entriesAdded = prev.last.result.entriesAdded
    /\ last.result.entriesUpdated = prev.last.result.entriesUpdated
    /\ last.result.entriesRemoved = prev.last.result.entriesRemoved
    /\ last.result.conflicts = prev.last.result.conflicts

\* C9: a sync with dryRun = true, in any direction and any state, leaves both
\* documents, the persisted memory entries and the sync state unchanged.
C9_DryRunFrame ==
  (last.op = "sync" /\ last.dryRun) =>
    /\ claudeFile = prev.claudeFile
    /\ agentsFile = prev.agentsFile
    /\ entries = prev.entries
    /\ syncState = prev.syncState
    /\ last.writes = <<>>

\* a dry run that had something to report, on a state where a real run had written
C9_Witness ==
  /\ last.op = "sync" /\ last.dryRun
  /\ last.result.entriesAdded > 0
  /\ prev.last.op = "sync" /\ ~prev.last.dryRun
  /\ entries # <<>>
  /\ syncState # <<>>

(***************************************************************************)
(* Specification SpecCorrection: transcripts and edits processed on one    *)
(* store                                                                   *)
(***************************************************************************)
Sentence(words) == join([i \in 1..Len(words) |-> <<words[i]>>], <<SP>>)

Transcripts ==
  {Sentence(<<"never", "use", "var">>) \o <<",", SP>> \o Sentence(<<"use", "const">>) \o <<".">>,
   Sentence(<<"never", "use", "const">>) \o <<",", SP>> \o Sentence(<<"use", "var">>) \o <<".">>,
   Sentence(<<"renamed", "a", "to", "b">>) \o <<".">>,
   Sentence(<<"the", "correct", "way", "is", "tabs">>) \o <<".">>,
   Sentence(<<"stop", "using", "tabs">>) \o <<".">>}

NoItems == <<>>

Response(throws, json, member, items) ==
  [throws |-> throws, json |-> json, corrections |-> member, items |-> items]

\* what the API call does when it is made
Responses ==
  {Response(TRUE, "none", "absent", NoItems),
   Response(FALSE, "none", "absent", NoItems),
   Response(FALSE, "invalid", "absent", NoItems),
   Response(FALSE, "object", "absent", NoItems),
   Response(FALSE, "object", "not_array", NoItems),
   Response(FALSE, "object", "array",
            <<[incorrect |-> <<"var">>, correct |-> <<"const">>, category |-> "coding_standard",
               paths |-> <<>>, confidence |-> <<90, 100>>]>>),
   Response(FALSE, "object", "array",
            <<[incorrect |-> <<>>, correct |-> <<>>, category |-> "misc", paths |-> <<>>,
               confidence |-> <<0, 1>>],
              [incorrect |-> <<"tabs">>, correct |-> <<>>, category |-> "misc", paths |-> <<>>,
               confidence |-> <<3, 2>>]>>)}

\* the candidates the detector finds in each transcript
Detected == [t \in Transcripts |-> detectCorrections(t)]

\* how the extraction went: not called, failed, or answered
OracleOutcome(apiKey, response) ==
  IF ~apiKey THEN "not_called"
  ELSE IF response.throws \/ response.json \in {"none", "invalid"} \/ response.corrections = "not_array"
       THEN "failed"
  ELSE "answered"

Edits ==
  {[filePath |-> "src/a.ts",
    oldContent |-> Sentence(<<"use", "npm", "run">>) \o <<NL>>,
    newContent |-> Sentence(<<"always", "use", "npm", "run">>) \o <<NL>>],
   [filePath |-> "src/a.ts",
    oldContent |-> Sentence(<<"use", "npm", "run", "tests">>) \o <<NL>>,
    newContent |-> Sentence(<<"use", "pnpm", "run", "tests">>) \o <<NL>>]}

SESSION_ID == "s1"

MaxCaptures == 2

InitCorrection ==
  /\ claudeFile = NoFile
  /\ agentsFile = NoFile
  /\ entries = <<>>
  /\ corrections = <<>>
  /\ syncState = NoSyncState
  /\ inp = [kind |-> "correction"]
  /\ last = [op |-> "init", n |-> 0]
  /\ prev = [op |-> "none"]

ProcessTranscript ==
  /\ inp.kind = "correction"
  /\ last.n < MaxCaptures
  /\ \E transcript \in Transcripts, apiKey \in BOOLEAN, response \in Responses :
       \E llmResults \in {OracleResults(apiKey, response)} :
         \E r \in {processTranscriptFrom(entries, corrections, Detected[transcript], llmResults,
                                        SESSION_ID)} :
           /\ entries' = r.entries
           /\ corrections' = r.corrections
           /\ last' = [op |-> "processTranscript", n |-> last.n + 1, transcript |-> transcript,
                       oracle |-> OracleOutcome(apiKey, response),
                       llmResults |-> llmResults, result |-> r.newCorrections]
  /\ prev' = Snapshot
  /\ UNCHANGED <<claudeFile, agentsFile, syncState, inp>>

ProcessEdit ==
  /\ inp.kind = "correction"
  /\ last.n < MaxCaptures
  /\ \E edit \in Edits :
       \E r \in {processEdit(entries, corrections, edit.filePath, edit.oldContent, edit.newContent,
                             SESSION_ID)} :
         /\ entries' = r.entries
         /\ corrections' = r.corrections
         /\ last' = [op |-> "processEdit", n |-> last.n + 1, edit |-> edit, result |-> r.newCorrections]
  /\ prev' = Snapshot
  /\ UNCHANGED <<claudeFile, agentsFile, syncState, inp>>

NextCorrection == ProcessTranscript \/ ProcessEdit

SpecCorrection == InitCorrection /\ [][NextCorrection]_vars

\* C10: no two persisted corrections have the same fingerprint of
\* "incorrect|correct", and a transcript processed a second time right after
\* the first persists nothing.
C10_CorrectionDedup ==
  /\ \A i, j \in 1..Len(corrections) :
       i # j => contentHash(PairKey(corrections[i])) # contentHash(PairKey(corrections[j]))
  /\ (/\ last.op = "processTranscript"
      /\ prev.last.op = "processTranscript"
      /\ prev.last.transcript = last.transcript
      /\ prev.last.oracle = last.oracle
      /\ prev.last.llmResults = last.llmResults) => last.result = <<>>

\* the stored correction is the exact reverse of one in the history
ReverseIn(row, history) ==
  \E k \in 1..Len(history) :
    /\ normalize(history[k].correct) = normalize(row.incorrect)
    /\ normalize(history[k].incorrect) = normalize(row.correct)

\* C11: processTranscript records every new correction whatever its
\* confidence, and creates a companion memory entry for it if and only if its
\* confidence is at least 0.7 and it is not a flip-flop relative to the
\* corrections persisted before the call.
C11_PromotionGate ==
  last.op = "processTranscript" =>
    /\ corrections = prev.corrections \o [i \in 1..Len(last.result) |-> last.result[i].row]
    /\ SubSeq(entries, 1, Len(prev.entries)) = prev.entries
    /\ Len(entries) = Len(prev.entries)
                        + Cardinality({i \in 1..Len(last.result) : last.result[i].memory_entry_id # 0})
    /\ \A c \in Range(mergeCorrections(Detected[last.transcript], last.llmResults)) :
         \/ getEntryByHash(prev.entries, contentHash(PairKey(c))).found
         \/ \E i \in 1..Len(last.result) :
              /\ last.result[i].row.incorrect = c.incorrect
              /\ last.result[i].row.correct = c.correct
              /\ last.result[i].row.confidence = c.confidence
    /\ \A i \in 1..Len(last.result) :
         LET row == last.result[i].row
             id == last.result[i].memory_entry_id
         IN IF 10 * row.confidence[1] >= 7 * row.confidence[2] /\ ~ReverseIn(row, prev.corrections)
            THEN /\ id \in (Len(prev.entries) + 1)..Len(entries)
                 /\ entries[id].source.type = "correction_capture"
                 /\ entries[id].category = row.category
                 /\ entries[id].content =
                      (IF row.incorrect # <<>>
                       THEN <<"Correction:", SP, QUOTE>> \o row.incorrect
                              \o <<QUOTE, SP, "should", SP, "be", SP, QUOTE>> \o row.correct \o <<QUOTE>>
                       ELSE <<"Note:", SP>> \o row.correct)
            ELSE id = 0

\* a confident correction that reverses a stored one and is not promoted, in a
\* store that holds a promoted correction
C11_Witness ==
  /\ last.op = "processTranscript"
  /\ \E i \in 1..Len(last.result) :
       /\ 10 * last.result[i].row.confidence[1] >= 7 * last.result[i].row.confidence[2]
       /\ ReverseIn(last.result[i].row, prev.corrections)
       /\ last.result[i].memory_entry_id = 0
  /\ entries # <<>>
\* the corrections the pattern detector alone yields for a transcript, less
\* those the fingerprint lookup finds
PatternOnly(transcript, entryTable) ==
  SelectSeq(mergeCorrections(Detected[transcript], <<>>),
            LAMBDA c : ~getEntryByHash(entryTable, contentHash(PairKey(c))).found)

\* C14: a processTranscript call made without an API key, or whose oracle call
\* threw or answered with a text that holds no JSON, unparsable JSON or a
\* corrections member that is no array, completes and persists exactly the
\* corrections of the pattern detector, in their order.
C14_OracleDegradation ==
  (last.op = "processTranscript" /\ last.oracle \in {"not_called", "failed"}) =>
    /\ last.n = prev.last.n + 1
    /\ corrections = prev.corrections \o [i \in 1..Len(last.result) |-> last.result[i].row]
    /\ With(PatternOnly(last.transcript, prev.entries), LAMBDA expected :
         /\ Len(last.result) = Len(expected)
         /\ \A i \in 1..Len(expected) :
              /\ last.result[i].row.incorrect = expected[i].incorrect
              /\ last.result[i].row.correct = expected[i].correct
              /\ last.result[i].row.confidence = expected[i].confidence
              /\ last.result[i].row.category = expected[i].category
              /\ last.result[i].row.source = "hook_pattern")

\* a failed oracle call on a store that holds a correction of the oracle
C14_Witness ==
  /\ last.op = "processTranscript"
  /\ last.oracle = "failed"
  /\ last.result # <<>>
  /\ \E k \in 1..Len(prev.corrections) : prev.corrections[k].source = "hook_llm"

(***************************************************************************)
(* Optimizer: analyzer                                                     *)
(***************************************************************************)
\* the tokens of the vocabulary that the path expression of the CLAUDE.md
\* parser matches whole and that hold a '/' or a '*'
PathLikeTokens == {"*", "tests/**", ".claude/rules", ".claude/settings"}

\* extractPaths of the CLAUDE.md parser: a match starts at the start of a line
\* or behind whitespace
parser_extractPaths(content) ==
  LET Starts(i) == i = 1 \/ IsSpace(content[i - 1])
      F[i \in 0..Len(content)] ==
        IF i = 0 THEN <<>>
        ELSE IF Starts(i) /\ content[i] \in PathLikeTokens THEN Append(F[i - 1], content[i])
        ELSE F[i - 1]
  IN F[Len(content)]

\* buildEntry of the CLAUDE.md parser: the entry carries the paths of its text
claudeMd_buildEntry(entry) ==
  [content |-> entry.content, heading |-> entry.heading, level |-> entry.level,
   tags |-> entry.tags, paths |-> parser_extractPaths(entry.content)]

isCriticalRule(content) ==
  LET has(needle) == includesTok(content, needle)
  IN \/ has("never") /\ (has("commit") \/ has("push") \/ has("expose"))
     \/ has("security") /\ has("must")
     \/ has("always") /\ has("must")
     \/ has("critical") \/ has("important")
     \/ has(".env") \/ has("secret") \/ has("credential")

Domains == <<"testing", "frontend", "backend", "database", "deployment", "ci/cd", "api", "auth">>

isDomainSpecific(content, heading) ==
  \E d \in 1..Len(Domains) : includesTok(content, Domains[d]) \/ includesTok(heading, Domains[d])

\* the file patterns of inferPaths; `words` are the tokens of the vocabulary
\* in which the expression of the row finds a match
pathMappings ==
  <<[words |-> {"test", "tests", "testing", "tests/**"},
     filePaths |-> <<"tests/**", "**/*.test.*", "**/*.spec.*">>],
    [words |-> {"vue"}, filePaths |-> <<"**/*.vue">>],
    [words |-> {"react"}, filePaths |-> <<"**/*.tsx", "**/*.jsx">>],
    [words |-> {"css", "tailwind", "style"},
     filePaths |-> <<"**/*.css", "**/*.scss", "tailwind.config.*">>],
    [words |-> {"migration"}, filePaths |-> <<"database/migrations/**">>],
    [words |-> {"model"}, filePaths |-> <<"app/Models/**", "src/models/**">>],
    [words |-> {"controller"}, filePaths |-> <<"app/Http/Controllers/**", "src/controllers/**">>],
    [words |-> {"middleware"}, filePaths |-> <<"app/Http/Middleware/**", "src/middleware/**">>],
    [words |-> {"route", "routing"}, filePaths |-> <<"routes/**", "src/routes/**">>],
    [words |-> {"config", "configuration"}, filePaths |-> <<"config/**", "*.config.*">>],
    [words |-> {"docker"}, filePaths |-> <<"Dockerfile", "docker-compose.*">>],
    [words |-> {"ci"}, filePaths |-> <<".github/**">>],
    [words |-> {"package.json"}, filePaths |-> <<"package.json", "composer.json">>]>>

\* [...new Set(xs)]: the first occurrence of every element, in order
Unique(xs) ==
  LET F[i \in 0..Len(xs)] ==
        IF i = 0 THEN <<>>
        ELSE IF \E j \in 1..(i - 1) : xs[j] = xs[i] THEN F[i - 1] ELSE Append(F[i - 1], xs[i])
  IN F[Len(xs)]

RECURSIVE Flatten(_)
Flatten(xss) == IF xss = <<>> THEN <<>> ELSE Head(xss) \o With(Tail(xss), LAMBDA t : Flatten(t))

HasWord(text, words) == \E i \in 1..Len(text) : text[i] \in words

inferPaths(entry, section) ==
  With(toLowerCase(entry.content), LAMBDA content :
  With(toLowerCase(section.heading), LAMBDA heading :
    Unique(Flatten([k \in 1..Len(pathMappings) |->
                      IF HasWord(content, pathMappings[k].words) \/ HasWord(heading, pathMappings[k].words)
                      THEN pathMappings[k].filePaths ELSE <<>>]))))

NoDomain == ""

\* the expressions of inferDomain, by the tokens of the vocabulary they match
inferDomain(entry, section) ==
  With(toLowerCase(entry.content) \o <<SP>> \o toLowerCase(section.heading), LAMBDA combined :
    IF HasWord(combined, {"test", "tests", "testing", "tests/**"}) THEN "testing"
    ELSE IF HasWord(combined, {"frontend", "vue", "react", "css"}) THEN "frontend"
    ELSE IF HasWord(combined, {"backend", "api", "server"}) THEN "backend"
    ELSE IF HasWord(combined, {"database", "sql", "migration"}) THEN "database"
    ELSE IF HasWord(combined, {"deploy", "ci", "ci/cd", "docker"}) THEN "devops"
    ELSE IF HasWord(combined, {"security", "auth"}) THEN "security"
    ELSE NoDomain)

RareLength == 200

classifyEntry_PathsFirst(entry, section) ==
  With(toLowerCase(entry.content), LAMBDA content :
    IF entry.paths # <<>> THEN "path_scoped"
    ELSE IF inferPaths(entry, section) # <<>> THEN "path_scoped"
    ELSE IF isCriticalRule(content) THEN "always_load"
    ELSE IF isDomainSpecific(content, toLowerCase(section.heading)) THEN "domain_specific"
    ELSE IF StrLen(content) > RareLength THEN "rare"
    ELSE "always_load")

classifyEntry(entry, section) ==
  With(toLowerCase(entry.content), LAMBDA content :
    IF isCriticalRule(content) THEN "always_load"
    ELSE IF entry.paths # <<>> THEN "path_scoped"
    ELSE IF inferPaths(entry, section) # <<>> THEN "path_scoped"
    ELSE IF isDomainSpecific(content, toLowerCase(section.heading)) THEN "domain_specific"
    ELSE IF StrLen(content) > RareLength THEN "rare"
    ELSE "always_load")

\* Math.ceil(text.length / 4)
estimateTokens(text) == (StrLen(text) + 3) \div 4

AnalyzeSection_All(section) ==
  Map(section.entries, LAMBDA entry :
    [entry |-> entry,
     classification |-> classifyEntry(entry, section),
     suggestedPaths |-> inferPaths(entry, section),
     domain |-> inferDomain(entry, section),
     tokenEstimate |-> estimateTokens(entry.content)])

\* one round of the section loop of analyzeEntries
AnalyzeSection(section) ==
  IF section.managed THEN <<>>
  ELSE Map(section.entries, LAMBDA entry :
         [entry |-> entry,
          classification |-> classifyEntry(entry, section),
          suggestedPaths |-> inferPaths(entry, section),
          domain |-> inferDomain(entry, section),
          tokenEstimate |-> estimateTokens(entry.content)])

analyzeEntries(sections) == Flatten(Map(sections, LAMBDA section : AnalyzeSection(section)))

(***************************************************************************)
(* Rule files (rules.ts)                                                   *)
(***************************************************************************)
\* `---\n` [`paths:\n` (`  - ${p}\n`)*] `---\n\n${content.trim()}\n`
generateRuleFile(name, paths, content) ==
  <<"---", NL>>
    \o (IF Len(paths) > 0
        THEN <<"paths:", NL>> \o Flatten([i \in 1..Len(paths) |-> <<SP, SP, "-", SP, paths[i], NL>>])
        ELSE <<>>)
    \o <<"---", NL, NL>> \o trim(content) \o <<NL>>

\* /^---\n([\s\S]*?)\n---\n/: the index of the newline that ends the shortest
\* frontmatter, 0 if the text does not match
FRONTMATTER_RE(raw) ==
  LET Ends(k) == raw[k] = NL /\ raw[k + 1] = "---" /\ raw[k + 2] = NL
      ks == {k \in 3..(Len(raw) - 2) : Ends(k)}
  IN IF Len(raw) >= 5 /\ raw[1] = "---" /\ raw[2] = NL /\ ks # {}
     THEN CHOOSE k \in ks : \A j \in ks : k <= j
     ELSE 0

\* /^\s+-\s+(.+)$/ on one line: the capture, trimmed; <<>> if the line does not match
SINGLE_PATH_RE(line) ==
  LET k == SpaceRun(line, 1)
      m == IF k >= 1 /\ Len(line) > k /\ line[k + 1] = "-" THEN SpaceRun(line, k + 2) ELSE 0
  IN IF m >= 1 /\ Len(line) > k + 1 + m THEN trim(SubSeq(line, k + 2 + m, Len(line))) ELSE <<>>

\* /^paths:\s*\n((?:\s+-\s+.+\n?)*)/m and the loop over its list: the items
\* behind the first `paths:` line.  The lines of the texts of the model hold
\* no whitespace at their ends and every item stands on a line of its own.
RulePaths(frontmatter) ==
  With(split(frontmatter), LAMBDA lines :
    LET Key(i) == lines[i] = <<"paths:">> /\ i < Len(lines)
        keys == {i \in 1..Len(lines) : Key(i)}
        first == CHOOSE i \in keys : \A j \in keys : i <= j
        Item(i) == SINGLE_PATH_RE(lines[i]) # <<>>
        F[i \in 0..Len(lines)] ==
          IF i = 0 \/ i <= first THEN <<>>
          ELSE IF (\A j \in (first + 1)..i : Item(j)) THEN Append(F[i - 1], SINGLE_PATH_RE(lines[i])[1])
          ELSE F[i - 1]
    IN IF keys = {} THEN <<>> ELSE F[Len(lines)])

parseRuleFile(raw) ==
  With(FRONTMATTER_RE(raw), LAMBDA k :
    With(IF k # 0 THEN SubSeq(raw, 3, k - 1) ELSE <<>>, LAMBDA frontmatter :
      With(IF k # 0 THEN RulePaths(frontmatter) ELSE <<>>, LAMBDA paths :
        [paths |-> paths,
         content |-> raw,
         frontmatter |-> frontmatter,
         body |-> trim(IF k # 0 THEN SubSeq(raw, k + 3, Len(raw)) ELSE raw),
         isConditional |-> Len(paths) > 0])))

(***************************************************************************)
(* Optimizer: splitter                                                     *)
(***************************************************************************)
\* the file patterns in the order of Array.prototype.sort (UTF-16 code units)
PathOrder ==
  <<"**/*.css", "**/*.jsx", "**/*.scss", "**/*.spec.*", "**/*.test.*", "**/*.tsx", "**/*.vue",
    "*.config.*", ".github/**", "Dockerfile", "app/Http/Controllers/**", "app/Http/Middleware/**",
    "app/Models/**", "composer.json", "config/**", "database/migrations/**", "docker-compose.*",
    "package.json", "routes/**", "src/controllers/**", "src/middleware/**", "src/models/**",
    "src/routes/**", "tailwind.config.*", "tests/**">>

sort(paths) == SelectSeq(PathOrder, LAMBDA p : \E i \in 1..Len(paths) : paths[i] = p)

\* pathKey.split(','): the key of an empty list is the empty string, which
\* splits into one empty string
SplitKey(key) == IF key = <<>> THEN <<"">> ELSE key

\* a Map as the sequence of its [key, items] pairs in insertion order
GroupBy(items, key(_)) ==
  LET F[i \in 0..Len(items)] ==
        IF i = 0 THEN <<>>
        ELSE With(F[i - 1], LAMBDA groups :
             With(key(items[i]), LAMBDA k :
               IF \E g \in 1..Len(groups) : groups[g].key = k
               THEN [g \in 1..Len(groups) |->
                       IF groups[g].key = k
                       THEN [groups[g] EXCEPT !.items = Append(@, items[i])]
                       ELSE groups[g]]
               ELSE Append(groups, [key |-> k, items |-> <<items[i]>>])))
  IN F[Len(items)]

inferRuleName(paths, items) ==
  LET some(globs) == \E i \in 1..Len(paths) : paths[i] \in globs
  IN IF some({"tests/**", "**/*.test.*"}) THEN "testing"
     ELSE IF some({"**/*.vue"}) THEN "vue"
     ELSE IF some({"**/*.tsx", "**/*.jsx"}) THEN "react"
     ELSE IF some({"**/*.css", "tailwind.config.*"}) THEN "styling"
     ELSE IF some({"database/migrations/**"}) THEN "database"
     ELSE IF some({"app/Http/Controllers/**"}) THEN "controllers"
     ELSE IF some({"app/Models/**"}) THEN "models"
     ELSE IF some({"routes/**", "src/routes/**"}) THEN "routing"
     ELSE IF some({".github/**"}) THEN "ci"
     ELSE IF some({"Dockerfile", "docker-compose.*"}) THEN "docker"
     ELSE IF some({"config/**", "*.config.*"}) THEN "config"
     ELSE IF items[1].domain # NoDomain THEN items[1].domain
     ELSE "misc"

Sum(xs) ==
  LET F[i \in 0..Len(xs)] == IF i = 0 THEN 0 ELSE F[i - 1] + xs[i]
  IN F[Len(xs)]

EntriesOf(items) == [i \in 1..Len(items) |-> items[i].entry]

TokensOf(items) == Sum([i \in 1..Len(items) |-> items[i].tokenEstimate])

ContentsOf(es) == join([i \in 1..Len(es) |-> es[i].content], <<NL, NL>>)

planSplit(sections) ==
  With(analyzeEntries(sections), LAMBDA analyzed :
    LET of(c) == SelectSeq(analyzed, LAMBDA item : item.classification = c)
        alwaysLoaded == EntriesOf(of("always_load"))
        pathScoped == GroupBy(of("path_scoped"), LAMBDA item : sort(item.suggestedPaths))
        domainGrouped == GroupBy(of("domain_specific"),
                                 LAMBDA item : IF item.domain # NoDomain THEN item.domain ELSE "general")
        rare == of("rare")
    IN [alwaysLoaded |-> <<[heading |-> NoHeading, level |-> 0, content |-> ContentsOf(alwaysLoaded),
                            entries |-> alwaysLoaded, managed |-> FALSE]>>,
        rules |->
          [g \in 1..Len(pathScoped) |->
             [name |-> inferRuleName(SplitKey(pathScoped[g].key), pathScoped[g].items),
              paths |-> SplitKey(pathScoped[g].key),
              entries |-> EntriesOf(pathScoped[g].items),
              tokenEstimate |-> TokensOf(pathScoped[g].items)]]
          \o [g \in 1..Len(domainGrouped) |->
                [name |-> domainGrouped[g].key,
                 paths |-> Unique(Flatten([i \in 1..Len(domainGrouped[g].items) |->
                                             domainGrouped[g].items[i].suggestedPaths])),
                 entries |-> EntriesOf(domainGrouped[g].items),
                 tokenEstimate |-> TokensOf(domainGrouped[g].items)]],
        topicFiles |->
          IF Len(rare) > 0
          THEN <<[name |-> "historical", domain |-> "historical", entries |-> EntriesOf(rare),
                  tokenEstimate |-> TokensOf(rare)]>>
          ELSE <<>>,
        originalTokens |-> TokensOf(analyzed),
        optimizedAlwaysLoadedTokens |->
          Sum([i \in 1..Len(alwaysLoaded) |-> estimateTokens(alwaysLoaded[i].content)])])

\* a directory as the sequence of its files in creation order; writeFileSync
\* replaces the content of a file that exists
writeFileSync(dir, name, content) ==
  IF \E i \in 1..Len(dir) : dir[i].name = name
  THEN [i \in 1..Len(dir) |-> IF dir[i].name = name THEN [name |-> name, content |-> content] ELSE dir[i]]
  ELSE Append(dir, [name |-> name, content |-> content])

\* the rule files loop of executeSplit: the directory after the first n rules
WriteRules(rules) ==
  LET F[i \in 0..Len(rules)] ==
        IF i = 0 THEN <<>>
        ELSE writeFileSync(F[i - 1], rules[i].name,
                           generateRuleFile(rules[i].name, rules[i].paths, ContentsOf(rules[i].entries)))
  IN F[Len(rules)]

\* executeSplit on an empty rules directory: the CLAUDE.md it writes, the rules
\* directory and the memory directory it leaves, and what it returns
executeSplit(plan) ==
  With(trim(join([i \in 1..Len(plan.alwaysLoaded) |-> plan.alwaysLoaded[i].content], <<NL, NL>>)),
       LAMBDA claudeMdContent :
    [claudeMd |-> claudeMdContent \o <<NL>>,
     rulesDir |-> WriteRules(plan.rules),
     autoMemDir |-> [i \in 1..Len(plan.topicFiles) |->
                       [name |-> plan.topicFiles[i].name,
                        content |-> <<"#", SP, plan.topicFiles[i].name, NL, NL>>
                                      \o ContentsOf(plan.topicFiles[i].entries) \o <<NL>>]],
     result |-> [originalTokens |-> plan.originalTokens,
                 optimizedTokens |-> plan.optimizedAlwaysLoadedTokens,
                 rulesCreated |-> Len(plan.rules),
                 alwaysLoadedEntries |-> Sum([i \in 1..Len(plan.alwaysLoaded) |->
                                                Len(plan.alwaysLoaded[i].entries)]),
                 pathScopedEntries |-> Sum([i \in 1..Len(plan.rules) |-> Len(plan.rules[i].entries)]),
                 files |-> <<"CLAUDE.md">> \o [i \in 1..Len(plan.rules) |-> plan.rules[i].name]
                             \o [i \in 1..Len(plan.topicFiles) |-> plan.topicFiles[i].name]]])

(***************************************************************************)
(* Specification SpecClassifier: mergeCorrections and detectFlipFlop on    *)
(* given arguments                                                         *)
(***************************************************************************)
MaxResults == 2
MaxHistory == 2

PatternResult(incorrect, correct, confidence) ==
  [incorrect |-> incorrect, correct |-> correct, context |-> <<>>, confidence |-> confidence,
   source |-> "pattern"]

LLMResult(incorrect, correct, category, confidence) ==
  [incorrect |-> incorrect, correct |-> correct, category |-> category, paths |-> <<>>,
   confidence |-> confidence]

MergePatternResults ==
  {PatternResult(<<"npm">>, <<"pnpm">>, <<6, 10>>),
   PatternResult(<<"Npm">>, <<"pnpm">>, <<5, 10>>),
   PatternResult(<<"npm", SP>>, <<"pnpm">>, <<8, 10>>),
   PatternResult(<<"var">>, <<"const">>, <<7, 10>>)}

MergeLLMResults ==
  {LLMResult(<<"npm">>, <<"pnpm">>, "command", <<9, 10>>),
   LLMResult(<<"use", SP, SP, "npm">>, <<"use", SP, "pnpm">>, "workflow", <<1, 1>>),
   LLMResult(<<"use", SP, "npm">>, <<"use", SP, "pnpm">>, "command", <<8, 10>>)}

FlipFlopCorrections ==
  {classifyCorrection(PatternResult(pair[1], pair[2], <<6, 10>>), "pattern") :
     pair \in {<<<<"npm">>, <<"pnpm">>>>,
               <<<<"pnpm">>, <<"npm">>>>,
               <<<<"pnpm">>, <<"Npm", SP>>>>,
               <<<<"use", SP, "npm">>, <<"pnpm">>>>,
               <<<<"pnpm">>, <<"use", SP, SP, "npm">>>>,
               <<<<"npm">>, <<"npm">>>>}}

InitClassifier ==
  /\ claudeFile = NoFile
  /\ agentsFile = NoFile
  /\ entries = <<>>
  /\ corrections = <<>>
  /\ syncState = NoSyncState
  /\ inp \in [kind : {"merge"}, patternResults : SeqsUpTo(MergePatternResults, MaxResults),
              llmResults : SeqsUpTo(MergeLLMResults, MaxResults)]
         \cup [kind : {"flipflop"}, correction : FlipFlopCorrections,
               existingCorrections : SeqsUpTo(FlipFlopCorrections, MaxHistory)]
  /\ last = [op |-> "init"]
  /\ prev = [op |-> "none"]

Merge ==
  /\ inp.kind = "merge"
  /\ last.op = "init"
  /\ last' = [op |-> "mergeCorrections",
              result |-> mergeCorrections(inp.patternResults, inp.llmResults)]
  /\ prev' = Snapshot
  /\ UNCHANGED <<claudeFile, agentsFile, entries, corrections, syncState, inp>>

FlipFlop ==
  /\ inp.kind = "flipflop"
  /\ last.op = "init"
  /\ last' = [op |-> "detectFlipFlop",
              result |-> detectFlipFlop(inp.correction, inp.existingCorrections)]
  /\ prev' = Snapshot
  /\ UNCHANGED <<claudeFile, agentsFile, entries, corrections, syncState, inp>>

NextClassifier == Merge \/ FlipFlop

SpecClassifier == InitClassifier /\ [][NextClassifier]_vars

\* the lowercased words of a string, in order: what is left of it once case
\* and the amount and the place of whitespace are disregarded
WordsOf(s) == toLowerCase(SelectSeq(s, LAMBDA t : ~IsSpace(t)))

NormPair(c) == <<WordsOf(c.incorrect), WordsOf(c.correct)>>

NormPairs(results) == {NormPair(c) : c \in Range(results)}

\* C12: mergeCorrections returns exactly one entry for each distinct
\* normalized (incorrect, correct) pair of either input and no other entry; the
\* entry of a pair found among the oracle results has source llm and the
\* confidence and category of an oracle result with that pair; the entry of a
\* pair found only among the pattern results has source pattern.
C12_MergePrecedence ==
  last.op = "mergeCorrections" =>
    /\ NormPairs(last.result) = NormPairs(inp.patternResults) \cup NormPairs(inp.llmResults)
    /\ \A i, j \in 1..Len(last.result) :
         NormPair(last.result[i]) = NormPair(last.result[j]) => i = j
    /\ \A i \in 1..Len(last.result) :
         IF NormPair(last.result[i]) \in NormPairs(inp.llmResults)
         THEN /\ last.result[i].source = "llm"
              /\ \E l \in Range(inp.llmResults) :
                   /\ NormPair(l) = NormPair(last.result[i])
                   /\ l.confidence = last.result[i].confidence
                   /\ l.category = last.result[i].category
         ELSE last.result[i].source = "pattern"

\* C12 for arguments whose strings carry no whitespace at their ends
NoOuterSpace(results) ==
  \A c \in Range(results) : trim(c.incorrect) = c.incorrect /\ trim(c.correct) = c.correct

C12_MergePrecedenceTrimmed ==
  (last.op = "mergeCorrections" /\ NoOuterSpace(inp.patternResults) /\ NoOuterSpace(inp.llmResults))
    => C12_MergePrecedence

\* C13: detectFlipFlop is true exactly when the history holds a correction
\* whose correct string equals the incorrect string of the new correction and
\* whose incorrect string equals its correct string, case and whitespace
\* normalized.
C13_FlipFlopIff ==
  last.op = "detectFlipFlop" =>
    (last.result = TRUE <=>
       \E h \in Range(inp.existingCorrections) :
         /\ WordsOf(h.correct) = WordsOf(inp.correction.incorrect)
         /\ WordsOf(h.incorrect) = WordsOf(inp.correction.correct))

\* a reversal that differs in case and whitespace is detected behind a
\* correction that is no reversal
C13_Witness ==
  /\ last.op = "detectFlipFlop"
  /\ last.result = TRUE
  /\ Len(inp.existingCorrections) = 2
  /\ \A h \in Range(inp.existingCorrections) :
       h.correct # inp.correction.incorrect \/ h.incorrect # inp.correction.correct
  /\ NormPair(inp.existingCorrections[1]) # <<WordsOf(inp.correction.correct), WordsOf(inp.correction.incorrect)>>

\* a history that repeats the correct string of the new correction as its own
\* correct string is no reversal
C13_WitnessNot ==
  /\ last.op = "detectFlipFlop"
  /\ last.result = FALSE
  /\ \E h \in Range(inp.existingCorrections) :
       WordsOf(h.incorrect) = WordsOf(inp.correction.correct)

(***************************************************************************)
(* Specification SpecOptimizer: a parsed CLAUDE.md is diffed against a     *)
(* parsed AGENTS.md, or planned and split                                  *)
(***************************************************************************)
MaxSections == 2
MaxTargetSections == 1

Heading(word) == <<"##", SP, word>>

Managed(id, lines) == <<<<StartMarker(id)>>>> \o lines \o <<<<EndMarker(id)>>>>

\* the blocks a CLAUDE.md of the model is made of
OptimizerBlocks ==
  {<<Heading("Rules"), Line(<<"always", "use", "strict", "mode">>), Line(<<"run", "tests">>)>>,
   <<Line(<<"never", "commit", "tests/**">>), Line(<<"use", "vue">>)>>,
   <<Heading("Testing"), Line(<<"always", "use", "strict", "mode">>)>>,
   Managed("synced", <<Line(<<"run", "tests", "b">>)>>),
   Managed("other", <<Line(<<"run", "tests">>)>>),
   <<Heading("Rules"), Line(<<"run", "migration">>), Line(<<"database", "rule">>)>>,
   <<Line(<<"vue", "tests">>), Line(<<"backend", "rule">>)>>,
   <<<<"*", SP, "rule", SP, "a">>, Line(<<"x{195}", "use">>)>>,
   <<Line(<<"x{194}", "use">>), Line(<<"auth", "rule">>)>>}

\* the blocks an AGENTS.md of the model is made of
TargetBlocks ==
  {<<Line(<<"always", "use", "strict", "mode">>), Line(<<"run", "the", "tests">>)>>,
   Managed("synced", <<Line(<<"use", "vue">>)>>),
   <<Line(<<"use", "vue">>)>>}

DocOf(blocks) == File(Doc(Flatten(blocks)))

\* the sections of a CLAUDE.md: every entry carries its paths
claudeMdSections(file) ==
  Map(parseClaudeMd(file), LAMBDA section :
    [section EXCEPT !.entries = Map(section.entries, LAMBDA entry : claudeMd_buildEntry(entry))])

InitOptimizer ==
  /\ claudeFile \in {DocOf(blocks) : blocks \in SeqsUpTo(OptimizerBlocks, MaxSections)}
  /\ agentsFile \in {DocOf(blocks) : blocks \in SeqsUpTo(TargetBlocks, MaxTargetSections)}
  /\ entries = <<>>
  /\ corrections = <<>>
  /\ syncState = NoSyncState
  /\ inp = [kind |-> "optimizer", sections |-> claudeMdSections(claudeFile),
            target |-> parseAgentsMd(agentsFile)]
  /\ last = [op |-> "init"]
  /\ prev = [op |-> "none"]

DiffSections ==
  /\ inp.kind = "optimizer"
  /\ last.op = "init"
  /\ last' = [op |-> "diffSections", result |-> diffSections(inp.sections, inp.target)]
  /\ prev' = Snapshot
  /\ UNCHANGED <<claudeFile, agentsFile, entries, corrections, syncState, inp>>

PlanSplit ==
  /\ inp.kind = "optimizer"
  /\ last.op = "init"
  /\ last' = [op |-> "planSplit", analyzed |-> analyzeEntries(inp.sections),
              plan |-> planSplit(inp.sections)]
  /\ prev' = Snapshot
  /\ UNCHANGED <<claudeFile, agentsFile, entries, corrections, syncState, inp>>

ExecuteSplit ==
  /\ inp.kind = "optimizer"
  /\ last.op = "planSplit"
  /\ \E r \in {executeSplit(last.plan)} :
       /\ claudeFile' = File(r.claudeMd)
       /\ last' = [op |-> "executeSplit", plan |-> last.plan, rulesDir |-> r.rulesDir,
                   autoMemDir |-> r.autoMemDir, result |-> r.result]
  /\ prev' = Snapshot
  /\ UNCHANGED <<agentsFile, entries, corrections, syncState, inp>>

NextOptimizer == DiffSections \/ PlanSplit \/ ExecuteSplit

SpecOptimizer == InitOptimizer /\ [][NextOptimizer]_vars

\* the entries of the sections that are not flagged managed
Unmanaged(sections) ==
  UNION {Range(sections[i].entries) : i \in {j \in 1..Len(sections) : ~sections[j].managed}}

\* the entries found in managed sections only
ManagedOnly(sections) ==
  UNION {Range(sections[i].entries) : i \in {j \in 1..Len(sections) : sections[j].managed}}
    \ Unmanaged(sections)

\* the entries of all buckets of a plan
PlanEntries(plan) ==
  UNION {Range(plan.alwaysLoaded[i].entries) : i \in 1..Len(plan.alwaysLoaded)}
    \cup UNION {Range(plan.rules[i].entries) : i \in 1..Len(plan.rules)}
    \cup UNION {Range(plan.topicFiles[i].entries) : i \in 1..Len(plan.topicFiles)}

\* C15: every entry in a bucket of diffSections is an entry of an unmanaged
\* section of its side, and every entry in the output of analyzeEntries and in
\* a bucket of planSplit is an entry of an unmanaged section: an entry found in
\* managed sections only appears in none of them.
C15_ManagedExcluded ==
  /\ last.op = "diffSections" =>
       /\ Range(last.result.added) \cup Range(last.result.unchanged)
            \cup {m.source : m \in Range(last.result.modified)} \subseteq Unmanaged(inp.sections)
       /\ Range(last.result.removed) \cup {m.target : m \in Range(last.result.modified)}
            \subseteq Unmanaged(inp.target)
  /\ last.op = "planSplit" =>
       /\ {item.entry : item \in Range(last.analyzed)} = Unmanaged(inp.sections)
       /\ PlanEntries(last.plan) = Unmanaged(inp.sections)

\* a plan for a document that holds an entry in a managed section only, next
\* to entries that are planned into rules
C15_Witness ==
  /\ last.op = "planSplit"
  /\ ManagedOnly(inp.sections) # {}
  /\ last.plan.rules # <<>>

\* C16: after executeSplit the rules directory holds as many files as the plan
\* has rule buckets, and every rule bucket has its file, named after the
\* bucket, with the content of every entry of the bucket in it.
C16_OneFilePerRuleBucket ==
  last.op = "executeSplit" =>
    /\ Len(last.rulesDir) = Len(last.plan.rules)
    /\ \A i \in 1..Len(last.plan.rules) :
         \E f \in Range(last.rulesDir) :
           /\ f.name = last.plan.rules[i].name
           /\ \A e \in Range(last.plan.rules[i].entries) : includes(f.content, e.content)

\* the unmanaged entries with their sections, in document order
EntriesInSections(sections) ==
  Flatten(Map(sections, LAMBDA section :
    IF section.managed THEN <<>>
    ELSE Map(section.entries, LAMBDA entry : [entry |-> entry, section |-> section])))

\* the classification that first-match priority gives an entry
Priority(classification, entry, section) ==
  LET content == toLowerCase(entry.content)
      critical == isCriticalRule(content)
      paths == entry.paths # <<>> \/ inferPaths(entry, section) # <<>>
      domain == isDomainSpecific(content, toLowerCase(section.heading))
      long == StrLen(content) > 200
  IN /\ critical => classification = "always_load"
     /\ (~critical /\ paths) => classification = "path_scoped"
     /\ (~critical /\ ~paths /\ domain) => classification = "domain_specific"
     /\ (~critical /\ ~paths /\ ~domain /\ long) => classification = "rare"
     /\ (~critical /\ ~paths /\ ~domain /\ ~long) => classification = "always_load"

MaxPaths == 2

RuleGlobs == {"tests/**", "**/*.vue", "**/*.test.*"}

RuleContents ==
  {<<>>,
   <<"a">>,
   <<SP, "a", NL>>,
   Line(<<"run", "tests">>) \o <<NL>> \o Line(<<"use", "vue">>),
   <<"a", NL, "---", NL, "b">>}

InitRules ==
  /\ claudeFile = NoFile
  /\ agentsFile = NoFile
  /\ entries = <<>>
  /\ corrections = <<>>
  /\ syncState = NoSyncState
  /\ inp \in [kind : {"rule"}, name : {"testing"}, paths : SeqsUpTo(RuleGlobs, MaxPaths),
              content : RuleContents]
  /\ last = [op |-> "init"]
  /\ prev = [op |-> "none"]

GenerateRule ==
  /\ inp.kind = "rule"
  /\ last.op = "init"
  /\ last' = [op |-> "generateRuleFile", text |-> generateRuleFile(inp.name, inp.paths, inp.content)]
  /\ prev' = Snapshot
  /\ UNCHANGED <<claudeFile, agentsFile, entries, corrections, syncState, inp>>

ParseRule ==
  /\ inp.kind = "rule"
  /\ last.op = "generateRuleFile"
  /\ last' = [op |-> "parseRuleFile", text |-> last.text, result |-> parseRuleFile(last.text)]
  /\ prev' = Snapshot
  /\ UNCHANGED <<claudeFile, agentsFile, entries, corrections, syncState, inp>>

NextRules == GenerateRule \/ ParseRule

SpecRules == InitRules /\ [][NextRules]_vars

HasToken(text, tok) == \E i \in 1..Len(text) : text[i] = tok

\* C17: parsing the text of generateRuleFile(name, paths, content) returns the
\* path list in its order, isConditional exactly for a non-empty list, and the
\* trimmed content as body; the body of a content that holds no `---` and no
\* `paths:` holds none either.
C17_RuleRoundTrip ==
  last.op = "parseRuleFile" =>
    /\ last.result.paths = inp.paths
    /\ last.result.isConditional = (inp.paths # <<>>)
    /\ last.result.body = trim(inp.content)
    /\ (~HasToken(inp.content, "---") /\ ~HasToken(inp.content, "paths:"))
         => (~HasToken(last.result.body, "---") /\ ~HasToken(last.result.body, "paths:"))

\* C17 for the non-empty path lists
C17_RuleRoundTripConditional ==
  (last.op = "parseRuleFile" /\ inp.paths # <<>>) => C17_RuleRoundTrip

(***************************************************************************)
(* Staleness scorer.  Numbers are fractions <<numerator, denominator>>     *)
(* with a positive denominator; times are counted in days.                 *)
(***************************************************************************)
MAX_AGE_DAYS == 365

RECURSIVE GCD(_, _)
GCD(a, b) == IF b = 0 THEN a ELSE GCD(b, a % b)

Abs(n) == IF n < 0 THEN 0 - n ELSE n

\* the fraction in lowest terms
Reduce(x) == With(GCD(Abs(x[1]), x[2]), LAMBDA g : <<x[1] \div g, x[2] \div g>>)

FracMul(x, y) == Reduce(<<x[1] * y[1], x[2] * y[2]>>)

\* x <= y
FracLe(x, y) == x[1] * y[2] <= y[1] * x[2]

\* x < y
FracLt(x, y) == x[1] * y[2] < y[1] * x[2]

\* Math.min(1, daysSinceUpdate / MAX_AGE_DAYS)
calculateAgeFactor(updatedAt, now) ==
  With(now - updatedAt, LAMBDA daysSinceUpdate :
    IF daysSinceUpdate >= MAX_AGE_DAYS THEN <<1, 1>> ELSE Reduce(<<daysSinceUpdate, MAX_AGE_DAYS>>))

UsageCap == 50

\* recentWeight * 0.7 + totalNormalized * 0.3
calculateUsageFactor(stats) ==
  IF stats.total = 0 THEN <<0, 1>>
  ELSE Reduce(<<7 * stats.last30Days * UsageCap
                  + 3 * (IF stats.total >= UsageCap THEN UsageCap ELSE stats.total) * stats.total,
                10 * stats.total * UsageCap>>)

\* fileExistChecker is "none" when no project root is given; otherwise it
\* answers "exist" or "gone" for the paths of the entry
calculateContradictionFactor(entry, fileExistChecker) ==
  With(toLowerCase(entry.content), LAMBDA content :
    LET has(needle) == includesTok(content, needle)
        base == IF entry.paths # <<>> /\ fileExistChecker = "gone" THEN <<2, 1>> ELSE <<1, 1>>
        deprecated == IF has("deprecated") THEN <<15, 10>> ELSE <<1, 1>>
        temporary == IF has("temporary") \/ has("todo") \/ has("fixme") THEN <<13, 10>> ELSE <<1, 1>>
    IN FracMul(FracMul(base, deprecated), temporary))

getRecommendation(score) ==
  IF FracLt(score, <<3, 10>>) THEN "fresh"
  ELSE IF FracLt(score, <<6, 10>>) THEN "review"
  ELSE IF FracLt(score, <<8, 10>>) THEN "demote"
  ELSE "delete"

\* Math.max(0, Math.min(1, score))
Clamp(score) ==
  IF FracLe(<<1, 1>>, score) THEN <<1, 1>>
  ELSE IF FracLe(score, <<0, 1>>) THEN <<0, 1>>
  ELSE score

Score(age, usage, contradiction) ==
  FracMul(FracMul(age, <<usage[2] - usage[1], usage[2]>>), contradiction)

scoreEntry_Unclamped(entry, stats, fileExistChecker, now) ==
  With(calculateAgeFactor(entry.updated_at, now), LAMBDA ageFactor :
  With(calculateUsageFactor(stats), LAMBDA usageFactor :
  With(calculateContradictionFactor(entry, fileExistChecker), LAMBDA contradictionFactor :
  With(Score(ageFactor, usageFactor, contradictionFactor), LAMBDA clampedScore :
    [entry |-> entry,
     score |-> clampedScore,
     factors |-> [age |-> ageFactor, usage |-> usageFactor, contradiction |-> contradictionFactor],
     recommendation |-> getRecommendation(clampedScore)]))))

\* stats is what db.getUsageStats returns for the entry
scoreEntry(entry, stats, fileExistChecker, now) ==
  With(calculateAgeFactor(entry.updated_at, now), LAMBDA ageFactor :
  With(calculateUsageFactor(stats), LAMBDA usageFactor :
  With(calculateContradictionFactor(entry, fileExistChecker), LAMBDA contradictionFactor :
  With(Clamp(Score(ageFactor, usageFactor, contradictionFactor)), LAMBDA clampedScore :
    [entry |-> entry,
     score |-> clampedScore,
     factors |-> [age |-> ageFactor, usage |-> usageFactor, contradiction |-> contradictionFactor],
     recommendation |-> getRecommendation(clampedScore)]))))

(***************************************************************************)
(* Specification SpecStaleness: scoreEntry on one entry                    *)
(***************************************************************************)
MaxAge == 2000
MaxUses == 200

\* days between the update of the entry and now; negative for an update time
\* in the future
StalenessAges == {-MaxAge, -1, 0, 1, MAX_AGE_DAYS - 1, MAX_AGE_DAYS, MAX_AGE_DAYS + 1, MaxAge}

\* the counts of the usage log: all accesses and those of the last 30 days
StalenessStats ==
  {[total |-> t, last30Days |-> r] :
     t \in {0, 1, UsageCap, UsageCap + 1, MaxUses}, r \in {0, 1, UsageCap, UsageCap + 1, MaxUses}}
    \cap [total : Nat, last30Days : Nat]

UsageLogs == {st \in StalenessStats : st.last30Days <= st.total}

StalenessContents ==
  {Line(<<"use", "tabs">>),
   Line(<<"deprecated", "rule">>),
   Line(<<"temporary", "rule">>),
   Line(<<"deprecated", "todo">>)}

InitStaleness ==
  /\ claudeFile = NoFile
  /\ agentsFile = NoFile
  /\ entries = <<>>
  /\ corrections = <<>>
  /\ syncState = NoSyncState
  /\ inp \in [kind : {"staleness"}, content : StalenessContents, paths : {<<>>, <<"tests/**">>},
              age : StalenessAges, stats : UsageLogs, fileExistChecker : {"none", "exist", "gone"}]
  /\ last = [op |-> "init"]
  /\ prev = [op |-> "none"]

ScoreEntry ==
  /\ inp.kind = "staleness"
  /\ last.op = "init"
  /\ last' = [op |-> "scoreEntry",
              result |-> scoreEntry([content |-> inp.content, paths |-> inp.paths, updated_at |-> 0 - inp.age],
                                    inp.stats, inp.fileExistChecker, 0)]
  /\ prev' = Snapshot
  /\ UNCHANGED <<claudeFile, agentsFile, entries, corrections, syncState, inp>>

NextStaleness == ScoreEntry

SpecStaleness == InitStaleness /\ [][NextStaleness]_vars

\* C19: the score that scoreEntry returns lies in [0,1], whatever the usage
\* counts, the age and the contradiction markers of the entry.
C19_StalenessBounds ==
  last.op = "scoreEntry" =>
    /\ last.result.score[2] > 0
    /\ 0 <= last.result.score[1]
    /\ last.result.score[1] <= last.result.score[2]

\* an old, unused entry with every contradiction marker: the product of the
\* factors is 3.9
C19_Witness ==
  /\ last.op = "scoreEntry"
  /\ inp.age = MaxAge
  /\ inp.stats.total = 0
  /\ last.result.factors.contradiction = <<39, 10>>
  /\ last.result.score = <<1, 1>>

\* an entry updated in the future has a negative age factor and the score 0
C19_WitnessFuture ==
  /\ last.op = "scoreEntry"
  /\ inp.age = 0 - MaxAge
  /\ inp.stats.total = MaxUses
  /\ last.result.factors.age[1] < 0
  /\ last.result.score = <<0, 1>>

(***************************************************************************)
(* The managed region across syncs and deletions                           *)
(***************************************************************************)
MaxRegionOps == 3

RegionClaudeDocs ==
  {File(Doc(<< Line(<<"always", "use", "strict", "mode">>), Line(<<"run", "the", "tests">>) >>)),
   File(Doc(<< Line(<<"always", "use", "strict", "tabs">>) >>)),
   File(Doc(<< Line(<<"use", ".claude/rules">>), Line(<<"use", "AGENTS.override.md">>) >>))}

RegionAgentsDocs ==
  {NoFile,
   File(Doc(<< Line(<<"run", "the", "tests">>) >>)),
   File(Doc(<< Line(<<"use", ".claude/rules">>) >>)),
   File(Doc(<< Line(<<"always", "use", "AGENTS.override.md">>), Line(<<"always", "use", ".claude/rules">>) >>))}

InitRegion ==
  /\ claudeFile \in RegionClaudeDocs
  /\ agentsFile \in RegionAgentsDocs
  /\ entries = <<>>
  /\ corrections = <<>>
  /\ syncState = NoSyncState
  /\ inp = [kind |-> "region"]
  /\ last = [op |-> "init", n |-> 0]
  /\ prev = [op |-> "none"]

SyncRegion ==
  /\ inp.kind = "region"
  /\ last.n < MaxRegionOps
  /\ \E direction \in Directions, dryRun \in BOOLEAN :
       \E r \in {sync(claudeFile, agentsFile, entries, syncState, direction, dryRun)} :
         /\ claudeFile' = r.claudeFile
         /\ agentsFile' = r.agentsFile
         /\ entries' = r.entries
         /\ syncState' = r.syncState
         /\ last' = [op |-> "sync", n |-> last.n + 1, direction |-> direction, dryRun |-> dryRun,
                     writes |-> r.writes, result |-> r.result]
  /\ prev' = Snapshot
  /\ UNCHANGED <<corrections, inp>>

\* the user deletes the entry that is the first line of a document
FirstLineIsEntry(file) == file.exists /\ BULLET_RE(Head(split(file.content)))

DeleteFirstLine(file) == File(join(Tail(split(file.content)), <<NL>>))

DeleteClaudeEntry ==
  /\ inp.kind = "region"
  /\ last.n < MaxRegionOps
  /\ FirstLineIsEntry(claudeFile)
  /\ claudeFile' = DeleteFirstLine(claudeFile)
  /\ last' = [op |-> "delete", n |-> last.n + 1, path |-> CLAUDE_MD_PATH]
  /\ prev' = Snapshot
  /\ UNCHANGED <<agentsFile, entries, corrections, syncState, inp>>

DeleteAgentsEntry ==
  /\ inp.kind = "region"
  /\ last.n < MaxRegionOps
  /\ FirstLineIsEntry(agentsFile)
  /\ agentsFile' = DeleteFirstLine(agentsFile)
  /\ last' = [op |-> "delete", n |-> last.n + 1, path |-> AGENTS_MD_PATH]
  /\ prev' = Snapshot
  /\ UNCHANGED <<claudeFile, entries, corrections, syncState, inp>>

NextRegion == SyncRegion \/ DeleteClaudeEntry \/ DeleteAgentsEntry

SpecRegion == InitRegion /\ [][NextRegion]_vars

\* the entry contents that the managed region `synced` of a document lists
IsSyncRegion(section) == section.managed /\ section.managedId = MANAGED_ID

RegionContents(sections) ==
  Flatten(Map(SelectSeq(sections, IsSyncRegion), LAMBDA section :
    Map(section.entries, LAMBDA entry : entry.content)))

\* the contents as formatEntries writes them and the parser reads them back
Listed(es) == [i \in 1..Len(es) |-> trim(EntryLines(<<es[i]>>)[1])]

\* the diff that a sync of the two documents computes
DiffOf(cFile, aFile) ==
  diffSections(SelectSeq(parseClaudeMd(cFile), NotManaged),
               SelectSeq(parseAgentsMd(aFile), NotManaged))

\* C20: after every non-dry-run sync whose direction includes
\* primary-to-mirror, the managed region `synced` of the mirror lists exactly
\* the translated, eligible entries that are in the primary's unmanaged
\* sections and absent from the mirror's unmanaged sections at that moment,
\* also when that set is empty; and symmetrically for mirror-to-primary.
C20_ManagedTracksSource ==
  (last.op = "sync" /\ ~last.dryRun) =>
    /\ last.direction \in {"claude-to-agents", "bidirectional"} =>
         RegionContents(parseAgentsMd(agentsFile))
           = Listed(EntriesToAgents(DiffOf(prev.claudeFile, prev.agentsFile)))
    /\ last.direction \in {"agents-to-claude", "bidirectional"} =>
         RegionContents(parseClaudeMd(claudeFile))
           = Listed(EntriesToClaude(DiffOf(prev.claudeFile, prev.agentsFile)))

\* the same for the syncs that have something to write
C20_ManagedTracksNonEmpty ==
  (last.op = "sync" /\ ~last.dryRun) =>
    /\ (/\ last.direction \in {"claude-to-agents", "bidirectional"}
        /\ EntriesToAgents(DiffOf(prev.claudeFile, prev.agentsFile)) # <<>>) =>
         RegionContents(parseAgentsMd(agentsFile))
           = Listed(EntriesToAgents(DiffOf(prev.claudeFile, prev.agentsFile)))
    /\ (/\ last.direction \in {"agents-to-claude", "bidirectional"}
        /\ EntriesToClaude(DiffOf(prev.claudeFile, prev.agentsFile)) # <<>>) =>
         RegionContents(parseClaudeMd(claudeFile))
           = Listed(EntriesToClaude(DiffOf(prev.claudeFile, prev.agentsFile)))

\* a real primary-to-mirror sync finds nothing to sync while the mirror still
\* lists an entry of an earlier sync
C20_StaleRegion ==
  /\ last.op = "sync" /\ ~last.dryRun
  /\ last.direction = "claude-to-agents"
  /\ EntriesToAgents(DiffOf(prev.claudeFile, prev.agentsFile)) = <<>>
  /\ RegionContents(parseAgentsMd(agentsFile)) # <<>>

\* C22: in the result of diffEntries each target entry is matched to at most
\* one source entry: no two modified pairs have the same target, and no target
\* that is the exact-fingerprint match of an unchanged source entry is the
\* target of a modified pair.
C22_MatchingOneToOne ==
  last.op = "diffEntries" =>
    /\ \A i, j \in 1..Len(last.result.modified) :
         i # j => contentHash(last.result.modified[i].target.content)
                    # contentHash(last.result.modified[j].target.content)
    /\ Hashes(last.result.unchanged) \cap ModifiedTargets(last.result) = {}

\* the part of C22 about two modified pairs alone
C22_ModifiedTargetsDistinct ==
  last.op = "diffEntries" =>
    \A i, j \in 1..Len(last.result.modified) :
      i # j => contentHash(last.result.modified[i].target.content)
                 # contentHash(last.result.modified[j].target.content)

\* positions of the start and end markers of an identifier in a text
StartsAt(text, id) == {i \in 1..Len(text) : text[i] = StartMarker(id)}

EndsAt(text, id) == {i \in 1..Len(text) : text[i] = EndMarker(id)}

\* a region of the identifier: a start marker and a later end marker
HasRegion(text, id) == \E i \in StartsAt(text, id), j \in EndsAt(text, id) : i < j

\* the first start marker that has a later end marker, and the first end
\* marker after it
RegionStart(text, id) ==
  CHOOSE i \in StartsAt(text, id) :
    /\ \E j \in EndsAt(text, id) : i < j
    /\ \A k \in StartsAt(text, id) : (\E j \in EndsAt(text, id) : k < j) => i <= k

RegionEnd(text, id) ==
  CHOOSE j \in EndsAt(text, id) :
    /\ RegionStart(text, id) < j
    /\ \A k \in EndsAt(text, id) : RegionStart(text, id) < k => j <= k

IsPrefix(p, text) == Len(p) <= Len(text) /\ SubSeq(text, 1, Len(p)) = p

IsSuffix(q, text) == Len(q) <= Len(text) /\ SubSeq(text, Len(text) - Len(q) + 1, Len(text)) = q

\* the text was changed only in the region of the identifier
FrameKept(old, new, id) ==
  IF HasRegion(old, id)
  THEN LET before == SubSeq(old, 1, RegionStart(old, id) - 1)
           after == SubSeq(old, RegionEnd(old, id) + 1, Len(old))
       IN /\ Len(new) >= Len(before) + Len(after) + 2
          /\ IsPrefix(before \o <<StartMarker(id)>>, new)
          /\ IsSuffix(<<EndMarker(id)>> \o after, new)
  ELSE /\ IsPrefix(trimEnd(old) \o <<NL, NL, StartMarker(id), NL>>, new)
       /\ IsSuffix(<<NL, EndMarker(id), NL>>, new)
       /\ Len(new) >= Len(trimEnd(old)) + 6

OneRegion(text, id) ==
  Cardinality(StartsAt(text, id)) = 1 /\ Cardinality(EndsAt(text, id)) = 1

ContentOf(file) == IF file.exists THEN file.content ELSE <<>>

\* C23: writeManagedSection changes only the managed region of the given
\* identifier: when a region exists the text before its start marker and after
\* its end marker is unchanged, when none exists the existing content is kept
\* with its trailing whitespace trimmed and the region is appended after one
\* blank line, and after every write the file holds exactly one start marker
\* and one end marker of the identifier.
C23_WriterFrame ==
  last.op = "writeManagedSection" =>
    /\ FrameKept(ContentOf(prev.agentsFile), ContentOf(agentsFile), inp.managedId)
    /\ OneRegion(ContentOf(agentsFile), inp.managedId)

\* a text with no marker of the identifier, or with one region and no other
\* marker of the identifier
WellFormed(text, id) ==
  \/ StartsAt(text, id) = {} /\ EndsAt(text, id) = {}
  \/ OneRegion(text, id) /\ HasRegion(text, id)

\* the same for the writes to a file without stray markers
C23_WriterFrameWellFormed ==
  (last.op = "writeManagedSection" /\ WellFormed(ContentOf(prev.agentsFile), inp.managedId)) =>
    /\ FrameKept(ContentOf(prev.agentsFile), ContentOf(agentsFile), inp.managedId)
    /\ OneRegion(ContentOf(agentsFile), inp.managedId)

\* the category of a listed entry content
CategoryOf(content) == categorizeForSync([content |-> content])

\* C24: in every enabled direction a real sync never writes into a document
\* an entry that belongs exclusively to the other tool: the managed region it
\* writes into the mirror lists no claude_only entry and the managed region it
\* writes into the primary lists no agents_only entry.
C24_CrossOnlyFilter ==
  (last.op = "sync" /\ ~last.dryRun) =>
    /\ AGENTS_MD_PATH \in Range(last.writes) =>
         \A c \in Range(RegionContents(parseAgentsMd(agentsFile))) : CategoryOf(c) # "claude_only"
    /\ CLAUDE_MD_PATH \in Range(last.writes) =>
         \A c \in Range(RegionContents(parseClaudeMd(claudeFile))) : CategoryOf(c) # "agents_only"

\* what the filters of the two branches do keep out: the entries of the
\* destination's own tool
C24_OwnToolFiltered ==
  (last.op = "sync" /\ ~last.dryRun) =>
    /\ AGENTS_MD_PATH \in Range(last.writes) =>
         \A c \in Range(RegionContents(parseAgentsMd(agentsFile))) : CategoryOf(c) # "agents_only"
    /\ CLAUDE_MD_PATH \in Range(last.writes) =>
         \A c \in Range(RegionContents(parseClaudeMd(claudeFile))) : CategoryOf(c) # "claude_only"

\* the sync that `last` describes found a sync state record for the pair and
\* both documents differ from the hashes it holds
BothChanged ==
  LET row == getSyncState(prev.syncState, CLAUDE_MD_PATH, AGENTS_MD_PATH)
  IN /\ row.found
     /\ CurrentHash(prev.claudeFile) # row.row.source_hash
     /\ CurrentHash(prev.agentsFile) # row.row.target_hash

\* the (source text, target text) pairs of a list of conflicts or modified pairs
ConflictPairs(conflicts) ==
  [i \in 1..Len(conflicts) |-> <<conflicts[i].sourceContent, conflicts[i].targetContent>>]

ModifiedPairs(modified) ==
  [i \in 1..Len(modified) |-> <<modified[i].source.content, modified[i].target.content>>]

\* C25: sync reports conflicts only when the direction is bidirectional, a
\* sync state record exists for the pair and the whole-file hashes of both
\* documents differ from the recorded ones; the conflicts are then exactly the
\* modified pairs of the diff and a real run counts none of them in
\* entriesUpdated; in every other case the conflict list is empty.
C25_ConflictRule ==
  last.op = "sync" =>
    LET diff == DiffOf(prev.claudeFile, prev.agentsFile) IN
    IF last.direction = "bidirectional" /\ BothChanged
    THEN /\ ConflictPairs(last.result.conflicts) = ModifiedPairs(diff.modified)
         /\ ~last.dryRun => last.result.entriesUpdated = 0
    ELSE /\ last.result.conflicts = <<>>
         /\ ~last.dryRun => last.result.entriesUpdated = Len(diff.modified)

\* a real bidirectional sync reported a conflict
C25_Witness ==
  /\ last.op = "sync" /\ ~last.dryRun
  /\ last.direction = "bidirectional"
  /\ last.result.conflicts # <<>>
  /\ last.result.entriesUpdated = 0

\* a real one-directional sync of two changed documents counted a modified pair
C25_WitnessOneWay ==
  /\ last.op = "sync" /\ ~last.dryRun
  /\ last.direction # "bidirectional"
  /\ BothChanged
  /\ last.result.conflicts = <<>>
  /\ last.result.entriesUpdated > 0

\* the last step is a bidirectional sync right after a real bidirectional
\* sync that reported a conflict
SyncAfterConflict ==
  /\ last.op = "sync" /\ last.direction = "bidirectional"
  /\ prev.last.op = "sync" /\ ~prev.last.dryRun
  /\ prev.last.direction = "bidirectional"
  /\ prev.last.result.conflicts # <<>>

\* C26: a conflict reported by a real bidirectional sync is reported again by
\* a later bidirectional sync as long as neither document has been edited, and
\* is not turned into an updated entry.
C26_ConflictsPersist ==
  SyncAfterConflict =>
    /\ \A i \in 1..Len(prev.last.result.conflicts) :
         \E j \in 1..Len(last.result.conflicts) :
           last.result.conflicts[j] = prev.last.result.conflicts[i]
    /\ ~last.dryRun => last.result.entriesUpdated = 0

\* the second sync found the documents equal to the recorded hashes
C26_HashesRecorded ==
  SyncAfterConflict => ~getSyncDrift(prev.claudeFile, prev.agentsFile, prev.syncState).drifted

(***************************************************************************)
(* Specification SpecSections: the sections a parser emits for a text      *)
(***************************************************************************)
InitSections ==
  /\ claudeFile \in {File(t) : t \in ParserTexts}
  /\ agentsFile = NoFile
  /\ entries = <<>>
  /\ corrections = <<>>
  /\ syncState = NoSyncState
  /\ inp \in [kind : {"sections"}, type : {"claude_md", "agents_md"}]
  /\ last = [op |-> "init"]
  /\ prev = [op |-> "none"]

Parse ==
  /\ inp.kind = "sections"
  /\ last.op = "init"
  /\ last' = [op |-> "parse", type |-> inp.type,
              sections |-> IF inp.type = "claude_md" THEN parseClaudeMd(claudeFile)
                           ELSE parseAgentsMd(claudeFile)]
  /\ prev' = Snapshot
  /\ UNCHANGED <<claudeFile, agentsFile, entries, corrections, syncState, inp>>

NextSections == Parse

SpecSections == InitSections /\ [][NextSections]_vars

\* the trimmed non-blank lines of a text that are not headings
BodyLines(text) ==
  Map(SelectSeq(split(text), LAMBDA line : trim(line) # <<>> /\ ~HEADING_RE(line)), trim)

\* the body lines of the contents of the entries of a section
EntryBodyLines(section) ==
  Flatten(Map(section.entries, LAMBDA entry : BodyLines(entry.content)))

\* C21: for every plain section the parser produces, every non-blank,
\* non-heading line of the section's raw content is contained in the content
\* of exactly one of the section's entries (a line that occurs k times in the
\* section occurs k times in the entries), wherever it stands relative to the
\* bullets of the section.
C21_NoLineLost ==
  last.op = "parse" =>
    \A i \in 1..Len(last.sections) :
      ~last.sections[i].managed =>
        SameBag(BodyLines(last.sections[i].content), EntryBodyLines(last.sections[i]))

\* the lines of the parsed text
InputLines == split(ContentOf(claudeFile))

\* line k holds a start marker; line k holds an end marker and no start marker
IsStartLine(lines, k) == MANAGED_START_RE(lines[k])

IsEndLine(lines, k) == ~MANAGED_START_RE(lines[k]) /\ MANAGED_END_RE(lines[k])

\* the end marker lines that close a region: a start marker line stands
\* before them with no end marker line in between
Closers(lines) ==
  {e \in 1..Len(lines) :
     /\ IsEndLine(lines, e)
     /\ \E st \in 1..(e - 1) :
          IsStartLine(lines, st) /\ \A k \in (st + 1)..(e - 1) : ~IsEndLine(lines, k)}

\* the start marker line of the region that the end marker line e closes
Opener(lines, e) ==
  CHOOSE st \in 1..(e - 1) :
    IsStartLine(lines, st) /\ \A k \in (st + 1)..(e - 1) : ~IsStartLine(lines, k)

\* the k-th element of a set of numbers in increasing order
Nth(S, k) == CHOOSE x \in S : Cardinality({y \in S : y < x}) = k - 1

\* the text between the marker lines of each closed region, in input order
ClosedRegions(lines) ==
  [k \in 1..Cardinality(Closers(lines)) |->
     LET e == Nth(Closers(lines), k)
     IN join(SubSeq(lines, Opener(lines, e) + 1, e - 1), <<NL>>)]

\* the start marker line of a region that is open at the end of the input,
\* 0 if there is none
OpenStart(lines) ==
  LET starts == {st \in 1..Len(lines) :
                   /\ IsStartLine(lines, st)
                   /\ \A k \in (st + 1)..Len(lines) : ~IsStartLine(lines, k) /\ ~IsEndLine(lines, k)}
  IN IF starts = {} THEN 0 ELSE CHOOSE st \in starts : TRUE

ManagedSections(sections) == SelectSeq(sections, LAMBDA section : section.managed)

SectionContents(sections) == [i \in 1..Len(sections) |-> sections[i].content]

\* C27: the content of every managed section the parser emits is, in order
\* and without omission, the input lines between its start marker line and
\* the end marker line that closes it, blank lines and nested headings
\* included.
C27_ManagedVerbatim ==
  last.op = "parse" =>
    SectionContents(ManagedSections(last.sections)) = ClosedRegions(InputLines)

\* a managed section that holds a heading and a blank line was emitted
C27_Witness ==
  /\ last.op = "parse"
  /\ \E i \in 1..Len(last.sections) :
       /\ last.sections[i].managed
       /\ last.sections[i].content = <<"#", SP, "Rules", NL>>

\* C28: when the input ends while a managed region is open, the parser emits
\* a managed section with the buffered lines and their entries, as if the
\* region ended at the end of the input.
C28_UnterminatedRegion ==
  (last.op = "parse" /\ OpenStart(InputLines) # 0) =>
    /\ last.sections # <<>>
    /\ LET section == last.sections[Len(last.sections)]
           buffered == join(SubSeq(InputLines, OpenStart(InputLines) + 1, Len(InputLines)), <<NL>>)
       IN /\ section.managed
          /\ section.content = buffered
          /\ section.entries = extractEntries(buffered, section.level)

\* the number of managed sections is the number of closed regions: an open
\* region yields none
C28_OpenRegionDropped ==
  last.op = "parse" =>
    Len(ManagedSections(last.sections)) = Cardinality(Closers(InputLines))

\* the entries that analyzeEntries classified path_scoped
PathScopedEntries(analyzed) ==
  {analyzed[i].entry : i \in {k \in 1..Len(analyzed) : analyzed[k].classification = "path_scoped"}}

\* C29: every rule bucket that planSplit builds from path_scoped entries has
\* a non-empty path set made only of non-empty glob patterns, also when an
\* entry is path_scoped only because it declares its own path patterns.
C29_BucketsCarryPaths ==
  last.op = "planSplit" =>
    \A g \in 1..Len(last.plan.rules) :
      Range(last.plan.rules[g].entries) \cap PathScopedEntries(last.analyzed) # {} =>
        /\ last.plan.rules[g].paths # <<>>
        /\ \A i \in 1..Len(last.plan.rules[g].paths) : last.plan.rules[g].paths[i] # ""

\* the same for the buckets of the entries for which the keyword table infers
\* a path
C29_InferredBucketsCarryPaths ==
  last.op = "planSplit" =>
    \A g \in 1..Len(last.plan.rules) :
      (\E k \in 1..Len(last.analyzed) :
         /\ last.analyzed[k].classification = "path_scoped"
         /\ last.analyzed[k].suggestedPaths # <<>>
         /\ last.analyzed[k].entry \in Range(last.plan.rules[g].entries)) =>
        /\ last.plan.rules[g].paths # <<>>
        /\ \A i \in 1..Len(last.plan.rules[g].paths) : last.plan.rules[g].paths[i] # ""

\* the correction has a companion memory entry
Promoted(row) == \E k \in 1..Len(entries) : entries[k].content = MemoryContent(row)

\* row b is the exact reverse of row a
ExactReverse(a, b) ==
  /\ a.incorrect = b.correct
  /\ a.correct = b.incorrect
  /\ a.incorrect # a.correct

\* C30: the batch path never promotes both a correction and its exact reverse
\* to memory entries, whether the first of the two was persisted by an earlier
\* run or earlier within the same processTranscript call.
C30_NoOscillation ==
  \A i, j \in 1..Len(corrections) :
    ExactReverse(corrections[i], corrections[j]) =>
      ~(Promoted(corrections[i]) /\ Promoted(corrections[j]))

\* the same for a correction and a reverse that an earlier call persisted
C30_NoOscillationAcrossCalls ==
  last.op = "processTranscript" =>
    \A i \in 1..Len(prev.corrections) : \A j \in (Len(prev.corrections) + 1)..Len(corrections) :
      ExactReverse(corrections[i], corrections[j]) =>
        \A k \in 1..Len(last.result) :
          last.result[k].row = corrections[j] => last.result[k].memory_entry_id = 0

====
